---- MODULE Spec2Model ----
(***************************************************************************)
(* A model of the chat-simplelearn backend: the in-memory session registry *)
(* (services/session_service.py), the ingestion task registry and its      *)
(* background routine (routers/file_process_router.py) and the three       *)
(* server-sent-event streams of routers/rag_router.py.                     *)
(*                                                                         *)
(* Each subsystem has its own variables and its own specification; a       *)
(* specification leaves the other subsystems' variables at their initial   *)
(* values.                                                                 *)
(***************************************************************************)
EXTENDS Integers, Sequences, FiniteSets, TLC

VARIABLES
    \* ---- SessionService (services/session_service.py)
    sessions,       \* self._sessions: session id -> session record
    last_cleanup,   \* self._last_cleanup
    now,            \* the value time.time() returns
    ticks,          \* number of clock advances so far (bounds the clock)
    used,           \* session ids uuid4 has produced so far
    log,            \* history variable: every message appended to a session, in order
    lastOp,         \* history variable: the call that just returned, with what it read
    \* ---- threads calling SessionService concurrently
    lock,           \* self._lock: "free" or the thread that holds it
    tpc,            \* thread -> the statement it executes next
    tloc,           \* thread -> the locals of its call (session_id, current_time, session)
    detached,       \* session id -> a dictionary removed from the registry and still referenced
    obs,            \* thread -> what its last get_chat_history read outside the lock
    \* ---- the ingestion task registry (routers/file_process_router.py)
    task_status_store,  \* task id -> the stored record
    hpc,            \* task id -> where the request handler create_vector_store is
    rpc,            \* task id -> where the routine process_vector_store_creation is
    running,        \* the coroutine the event loop is executing, or <<"idle", "-">>
    job,            \* task id -> the request's files and project, and the routine's locals
    temp_dirs,      \* the task ids whose temp_pdfs/<task_id> directory is on disk
    milvus,         \* collection name -> number of chunks in the vector store
    raised,         \* history variable: the tasks for which an exception was raised
    stored,         \* history variable: task id -> the result stored on completion
    tresp,          \* history variable: the last response of the router, and the
                    \* routine's position when it was produced
    \* ---- one request to a streaming endpoint (routers/rag_router.py)
    endpoint,       \* "none" or the endpoint that was called
    request,        \* the request body
    spc,            \* where the handler or its generate_stream is
    http,           \* the status of the response, 0 before there is one
    transcribed_text,   \* the handler's local transcribed_text
    retrieved_docs, \* the local retrieved_docs
    sources,        \* the local sources of generate_stream
    full_content,   \* the local full_content of generate_stream
    frames,         \* the frames generate_stream has yielded, in order
    nchunks,        \* number of chunks chain.astream has produced
    exc,            \* the exception generate_stream caught, if any
    called,         \* history variable: the collaborators called for the request
    system_prompt,  \* the system prompt of the chain, <<>> before it is assembled
    \* ---- the collections of the vector store (rag_router.py, rags_repo.py)
    collections,    \* the names of the collections the vector store holds
    loaded,         \* the names of the collections the vector store has loaded
    preloaded_collections,  \* RagRepo._preloaded_collections
    cresp,          \* history variable: the last operation on the collections,
                    \* with the collections before it and its response
    \* ---- one request to a protected route (utility/auth_middleware.py)
    apc,            \* where the request is: "idle", "authenticated", "rejected", "body_done"
    bearer,         \* the bearer token of the request
    auth_time,      \* the time of the request
    aresp,          \* what AuthMiddleware.__call__ returned or raised
    \* ---- one call of AiUtilityRepo.generate_insights_from_documents
    ipc,            \* where the call is
    documents,      \* the argument documents
    results,        \* the local results of asyncio.gather
    summary_text,   \* the local summary_text
    faq_raw,        \* the local faq_raw
    llm_calls,      \* history variable: the calls of self.llm.ainvoke, in order
    insights_returned,  \* what the call returned to the routine
    insights_task,  \* the status the routine stores after the call
    \* ---- one call of FileProcessingRepo.create_milvus_vectorstore
    mpc,            \* where the call is: "idle" or "submitted"
    chunked_docs,   \* the argument documents: the metadata of each chunk
    target,         \* the argument collection_name
    cleaned_docs,   \* the metadata of the documents handed to Milvus.from_documents
    \* ---- one call of RagRepo.get_collection_documents
    gpc,            \* where the call is: "idle", "loop" or "returned"
    max_docs,       \* the argument max_docs
    doc_count,      \* collection.num_entities
    batch_offset,   \* the loop variable i: the offset of the next query
    all_docs,       \* the number of rows in the local all_docs
    \* ---- the two retrievals of one asyncStreamQuery / asyncStreamQueryV2 request
    qpc,            \* where the request is: "idle", "sources", "chain" or "done"
    qendpoint,      \* the endpoint that was called
    ranking,        \* the chunks of the collection, nearest to the question first
    reported,       \* the chunks reported to the client as sources
    context         \* the chunks the chain formats into the prompt

svars == <<sessions, last_cleanup, now, ticks, used, log, lastOp>>
thvars == <<lock, tpc, tloc, detached, obs>>
tvars == <<task_status_store, hpc, rpc, running, job, temp_dirs, milvus, raised,
           stored, tresp>>

stvars == <<endpoint, request, spc, http, transcribed_text, retrieved_docs, sources,
            full_content, frames, nchunks, exc, called, system_prompt>>

cvars == <<collections, loaded, preloaded_collections, cresp>>
avars == <<apc, bearer, auth_time, aresp>>
ivars == <<ipc, documents, results, summary_text, faq_raw, llm_calls,
           insights_returned, insights_task>>

mvars == <<mpc, chunked_docs, target, cleaned_docs>>
gvars == <<gpc, max_docs, doc_count, batch_offset, all_docs>>
qvars == <<qpc, qendpoint, ranking, reported, context>>

\* what a call of SessionService that runs alone leaves unchanged
beyondSession == <<qvars, gvars, mvars, ivars, avars, thvars, tvars, stvars, cvars>>
\* what a step of a thread inside SessionService leaves unchanged
beyondThread == <<qvars, gvars, mvars, ivars, avars, tvars, stvars, cvars>>
\* what the ingestion router leaves unchanged
beyondTasks == <<qvars, gvars, mvars, ivars, avars, svars, thvars, stvars, cvars>>
\* what a streaming endpoint leaves unchanged
beyondStreams == <<qvars, gvars, mvars, ivars, avars, svars, thvars, tvars, cvars>>
\* what an operation on the collections leaves unchanged
beyondCollections == <<qvars, gvars, mvars, ivars, avars, svars, thvars, tvars, stvars>>
\* what a request to a protected route leaves unchanged
beyondAuth == <<qvars, gvars, mvars, ivars, svars, thvars, tvars, stvars, cvars>>
\* what a call of generate_insights_from_documents leaves unchanged
beyondInsights == <<qvars, gvars, mvars, avars, svars, thvars, tvars, stvars, cvars>>
\* what a call of create_milvus_vectorstore leaves unchanged
beyondIndexing == <<qvars, gvars, ivars, avars, svars, thvars, tvars, stvars, cvars>>
\* what a call of get_collection_documents leaves unchanged
beyondDocuments == <<qvars, mvars, ivars, avars, svars, thvars, tvars, stvars, cvars>>
\* what the retrievals of a streaming request leave unchanged
beyondRetrievals == <<gvars, mvars, ivars, avars, svars, thvars, tvars, stvars, cvars>>

vars == <<svars, thvars, tvars, stvars, cvars, avars, ivars, mvars, gvars,
          qvars>>

-----------------------------------------------------------------------------
(* Bounds of the model.                                                    *)

\* clock advances in one behaviour
MaxTicks == 2
\* clock advances in one behaviour of HistorySpec
MaxHistoryTicks == 1
\* messages appended in one behaviour of HistorySpec
MaxAppends == 52
\* messages appended in one behaviour of SessionSpec
MaxShortAppends == 1
\* clock advances in one behaviour of ThreadSpec
MaxThreadTicks == 1
\* add_message_to_session calls started in one behaviour of ThreadSpec
MaxThreadAppends == 2
\* chunks load_and_chunk_pdfs returns for one job
MaxDocs == 1
\* chunks chain.astream produces for one request
MaxChunks == 2
\* documents a retrieval returns
MaxRetrieved == 2
\* chunks handed to one call of create_milvus_vectorstore
MaxChunkDocs == 2
\* chunks in the collection a question is asked of
MaxStored == 12

-----------------------------------------------------------------------------
(* SessionService: constants and pure helpers.                             *)

SessionIds == {"s1", "s2"}
CollectionNames == {"c1", "c2"}

\* the amounts (seconds) by which the clock advances between two calls
TickSteps == {1, 3600, 86400}
\* the time that may pass between get_session's clock reading and the sweep's
Lags == {0, 1}

\* SessionService.__init__(session_timeout_hours = 24)
session_timeout_hours == 24
\* self._cleanup_interval = 3600
cleanup_interval == 3600
\* the literal 3600 of "self.session_timeout_hours * 3600"
SecondsPerHour == 3600
\* "Keep only last 50 messages"
HistoryCap == 50

Min(a, b) == IF a < b THEN a ELSE b

\* the n-th message a client appends to a session; the content is its serial
\* number, so that two messages of one session are never equal
Msg(n) ==
    [role |-> IF n % 2 = 1 THEN "user" ELSE "assistant", content |-> n]

\* message.dict(): the dictionary a ChatMessage is stored as
MessageDict(m) == [role |-> m.role, content |-> m.content, sources |-> "None"]

\* the record create_session stores ('created_at' is written here and never
\* read or changed by any method; the model leaves it out)
NewSession(id, collection_name, current_time) ==
    [id |-> id,
     collection_name |-> collection_name,
     chat_history |-> <<>>,
     last_accessed |-> current_time,
     message_count |-> 0]

\* (mutant) what a plausible slip in the expiry test would do: expire at the boundary
ExpiredAtBoundary(current_time, session) ==
    current_time - session.last_accessed >= session_timeout_hours * SecondsPerHour

\* current_time - session['last_accessed'] > (self.session_timeout_hours * 3600)
Expired(current_time, session) ==
    current_time - session.last_accessed > session_timeout_hours * SecondsPerHour

SweepDueAtBoundary(current_time, last) == current_time - last >= cleanup_interval

\* current_time - self._last_cleanup > self._cleanup_interval
SweepDue(current_time, last) == current_time - last > cleanup_interval

\* _cleanup_expired_sessions: the registry without the sessions expired at
\* the sweep's own clock reading
CleanupExpiredSessions(reg, current_time) ==
    [s \in {x \in DOMAIN reg : ~Expired(current_time, reg[x])} |-> reg[s]]

\* (mutant) what a plausible slip in the trimming would keep: the oldest 50 messages
TrimHistoryKeepsOldest(h) ==
    IF Len(h) > HistoryCap THEN SubSeq(h, 1, HistoryCap) ELSE h

\* session['chat_history'][-50:] when the history is longer than 50
TrimHistory(h) ==
    IF Len(h) > HistoryCap
    THEN SubSeq(h, Len(h) - HistoryCap + 1, Len(h))
    ELSE h

\* del self._sessions[session_id]
Remove(reg, sid) == [s \in DOMAIN reg \ {sid} |-> reg[s]]

\* self._sessions[session_id] = session
Put(reg, sid, session) ==
    [s \in DOMAIN reg \cup {sid} |-> IF s = sid THEN session ELSE reg[s]]

\* the session ids a caller may pass: generated ones, unknown ones, the empty one
SessionIdInputs == SessionIds \cup {""}

-----------------------------------------------------------------------------
(* SessionService: one action per method, each call running to completion. *)

SessionEmpty ==
    /\ sessions = <<>>
    /\ last_cleanup = 0
    /\ now = 0
    /\ ticks = 0
    /\ used = {}
    /\ log = [s \in SessionIds |-> <<>>]
    /\ lastOp = [op |-> "init"]

\* time passes between two calls
Tick(d) ==
    /\ now' = now + d
    /\ ticks' = ticks + 1
    /\ lastOp' = [op |-> "tick"]
    /\ UNCHANGED <<sessions, last_cleanup, used, log, beyondSession>>

\* create_session: uuid4 never returns an id twice (the ids are handed out in
\* a fixed order, which loses nothing: they are opaque tokens)
CreateSession(sid, collection_name) ==
    /\ sid \in SessionIds \ used
    /\ sid = "s2" => "s1" \in used
    /\ used' = used \cup {sid}
    /\ sessions' = Put(sessions, sid, NewSession(sid, collection_name, now))
    /\ lastOp' = [op |-> "create_session", sid |-> sid]
    /\ UNCHANGED <<last_cleanup, now, ticks, log, beyondSession>>

\* get_session; lag is the time that passes between its own clock reading and
\* the one _cleanup_expired_sessions makes
GetSessionAs(opname, sid, lag) ==
    IF sid = ""
    THEN /\ lag = 0
         /\ lastOp' = [op |-> opname, sid |-> sid, ret |-> "absent",
                       pre_present |-> FALSE, pre_la |-> 0, pre_cleanup |-> last_cleanup,
                       t |-> now, t2 |-> now]
         /\ UNCHANGED <<sessions, last_cleanup, now, ticks, used, log, beyondSession>>
    ELSE LET current_time == now
             sweep == SweepDue(current_time, last_cleanup)
             sweep_time == now + lag
             swept == IF sweep THEN CleanupExpiredSessions(sessions, sweep_time)
                      ELSE sessions
             found == sid \in DOMAIN swept
             expired == found /\ Expired(current_time, swept[sid])
             returned == found /\ ~expired
         IN  /\ lag > 0 => sweep
             /\ now' = sweep_time
             /\ ticks' = IF lag > 0 THEN ticks + 1 ELSE ticks
             /\ last_cleanup' = IF sweep THEN sweep_time ELSE last_cleanup
             /\ sessions' =
                   IF ~found THEN swept
                   ELSE IF expired THEN Remove(swept, sid)
                   ELSE [swept EXCEPT ![sid].last_accessed = current_time]
             /\ lastOp' = [op |-> opname, sid |-> sid,
                           ret |-> IF returned THEN "session" ELSE "absent",
                           pre_present |-> sid \in DOMAIN sessions,
                           pre_la |-> IF sid \in DOMAIN sessions
                                      THEN sessions[sid].last_accessed ELSE 0,
                           pre_cleanup |-> last_cleanup,
                           t |-> current_time, t2 |-> sweep_time]
             /\ UNCHANGED <<used, log, beyondSession>>

GetSession(sid, lag) == GetSessionAs("get_session", sid, lag)

\* get_chat_history: get_session, then the stored dictionaries as ChatMessages
GetChatHistory(sid, lag) == GetSessionAs("get_chat_history", sid, lag)

AddMessageToSessionUntouched(sid) ==
    LET present == sid # "" /\ sid \in DOMAIN sessions
        message == Msg(IF sid \in SessionIds THEN Len(log[sid]) + 1 ELSE 1)
    IN  /\ IF present
           THEN /\ sessions' =
                     [sessions EXCEPT
                        ![sid].chat_history =
                            TrimHistory(Append(@, MessageDict(message))),
                        ![sid].message_count = @ + 1]
                /\ log' = [log EXCEPT ![sid] = Append(@, MessageDict(message))]
           ELSE UNCHANGED <<sessions, log>>
        /\ lastOp' = [op |-> "add_message_to_session", sid |-> sid, ret |-> present,
                      t |-> now]
        /\ UNCHANGED <<last_cleanup, now, ticks, used, beyondSession>>

\* add_message_to_session
AddMessageToSession(sid) ==
    LET present == sid # "" /\ sid \in DOMAIN sessions
        message == Msg(IF sid \in SessionIds THEN Len(log[sid]) + 1 ELSE 1)
    IN  /\ IF present
           THEN /\ sessions' =
                     [sessions EXCEPT
                        ![sid].chat_history =
                            TrimHistory(Append(@, MessageDict(message))),
                        ![sid].message_count = @ + 1,
                        ![sid].last_accessed = now]
                /\ log' = [log EXCEPT ![sid] = Append(@, MessageDict(message))]
           ELSE UNCHANGED <<sessions, log>>
        /\ lastOp' = [op |-> "add_message_to_session", sid |-> sid, ret |-> present,
                      t |-> now]
        /\ UNCHANGED <<last_cleanup, now, ticks, used, beyondSession>>

\* update_session_collection
UpdateSessionCollection(sid, collection_name) ==
    LET present == sid \in DOMAIN sessions
    IN  /\ sessions' =
              IF present
              THEN [sessions EXCEPT ![sid].collection_name = collection_name,
                                    ![sid].last_accessed = now]
              ELSE sessions
        /\ lastOp' = [op |-> "update_session_collection", sid |-> sid, ret |-> present,
                      t |-> now]
        /\ UNCHANGED <<last_cleanup, now, ticks, used, log, beyondSession>>

\* delete_session
DeleteSession(sid) ==
    LET present == sid \in DOMAIN sessions
    IN  /\ sessions' = IF present THEN Remove(sessions, sid) ELSE sessions
        /\ lastOp' = [op |-> "delete_session", sid |-> sid, ret |-> present]
        /\ UNCHANGED <<last_cleanup, now, ticks, used, log, beyondSession>>

RECURSIVE SumCounts(_, _)
SumCounts(reg, ids) ==
    IF ids = {} THEN 0
    ELSE LET s == CHOOSE x \in ids : TRUE
         IN  reg[s].message_count + SumCounts(reg, ids \ {s})

\* get_session_stats
GetSessionStats ==
    LET active == {s \in DOMAIN sessions : ~Expired(now, sessions[s])}
    IN  /\ lastOp' = [op |-> "get_session_stats",
                      active_sessions |-> Cardinality(active),
                      total_sessions |-> Cardinality(DOMAIN sessions),
                      total_messages |-> SumCounts(sessions, active),
                      session_timeout_hours |-> session_timeout_hours]
        /\ UNCHANGED <<sessions, last_cleanup, now, ticks, used, log, beyondSession>>

TotalAppended == Len(log["s1"]) + Len(log["s2"])

Threads == {"T1", "T2"}

\* no thread is inside a call
ThreadIdle ==
    /\ lock = "free"
    /\ tpc = [th \in Threads |-> "idle"]
    /\ tloc = [th \in Threads |-> [sid |-> "", current_time |-> 0, found |-> FALSE]]
    /\ detached = <<>>
    /\ obs = [th \in Threads |-> [seen |-> FALSE, history |-> <<>>, message_count |-> 0]]

\* the calls of SessionService other than add_message_to_session and the clock
SessionCalls(ids, maxTicks) ==
    \/ \E sid \in ids, c \in CollectionNames : CreateSession(sid, c)
    \/ \E sid \in SessionIdInputs, lag \in Lags :
          (lag > 0 => ticks < maxTicks) /\ GetSession(sid, lag)
    \/ \E sid \in SessionIdInputs, lag \in Lags :
          (lag > 0 => ticks < maxTicks) /\ GetChatHistory(sid, lag)
    \/ \E sid \in SessionIds, c \in CollectionNames : UpdateSessionCollection(sid, c)
    \/ \E sid \in SessionIds : DeleteSession(sid)
    \/ GetSessionStats

\* sessions under a clock that reaches past the timeout, with short histories
SessionNext ==
    \/ \E d \in TickSteps : ticks < MaxTicks /\ Tick(d)
    \/ \E sid \in SessionIdInputs :
          TotalAppended < MaxShortAppends /\ AddMessageToSession(sid)
    \/ SessionCalls(SessionIds, MaxTicks)

\* sessions whose history grows past the cap, under a short clock
HistoryNext ==
    \/ ticks < MaxHistoryTicks /\ Tick(SecondsPerHour)
    \/ \E sid \in SessionIdInputs :
          TotalAppended < MaxAppends /\ AddMessageToSession(sid)
    \/ SessionCalls({"s1"}, MaxHistoryTicks)

-----------------------------------------------------------------------------
(* SessionService called by concurrent threads: one action per statement,  *)
(* or per run of statements no other thread can tell apart. A thread's     *)
(* statements interleave with the other threads' wherever the lock allows. *)

Goto(th, pc) == tpc' = [tpc EXCEPT ![th] = pc]

\* with self._lock: (entering)
Acquire(th, from, to) ==
    /\ tpc[th] = from
    /\ lock = "free"
    /\ lock' = th
    /\ Goto(th, to)
    /\ UNCHANGED <<svars, tloc, detached, obs, beyondThread>>

\* with self._lock: (leaving), and the return that follows
Release(th, from) ==
    /\ tpc[th] = from
    /\ lock = th
    /\ lock' = "free"
    /\ Goto(th, "idle")
    /\ UNCHANGED <<svars, tloc, detached, obs, beyondThread>>

\* the dictionaries a sweep or an expiry takes out of the registry stay alive
\* for the threads that hold them
Detach(reg, kept) ==
    [s \in DOMAIN detached \cup (DOMAIN reg \ DOMAIN kept) |->
        IF s \in DOMAIN reg THEN reg[s] ELSE detached[s]]

\* time passes between two statements
ThreadTick(d) ==
    /\ now' = now + d
    /\ ticks' = ticks + 1
    /\ UNCHANGED <<sessions, last_cleanup, used, log, lastOp, thvars, beyondThread>>

\* create_session, lines 51-52: the id and the clock reading, outside the lock
TCreateBegin(th, sid) ==
    /\ tpc[th] = "idle"
    /\ sid \in SessionIds \ used
    /\ sid = "s2" => "s1" \in used
    /\ used' = used \cup {sid}
    /\ tloc' = [tloc EXCEPT ![th] = [sid |-> sid, current_time |-> now, found |-> FALSE]]
    /\ Goto(th, "cs_lock")
    /\ UNCHANGED <<sessions, last_cleanup, now, ticks, log, lastOp, lock, detached, obs,
                   beyondThread>>

\* create_session, lines 55-62
TCreatePut(th, collection_name) ==
    /\ tpc[th] = "cs_put"
    /\ lock = th
    /\ sessions' = Put(sessions, tloc[th].sid,
                       NewSession(tloc[th].sid, collection_name, tloc[th].current_time))
    /\ Goto(th, "cs_unlock")
    /\ UNCHANGED <<last_cleanup, now, ticks, used, log, lastOp, lock, tloc, detached,
                   obs, beyondThread>>

\* add_message_to_session, lines 112-113: an empty id returns at once
TAddBegin(th, sid) ==
    /\ tpc[th] = "idle"
    /\ sid # ""
    /\ tloc' = [tloc EXCEPT ![th] = [sid |-> sid, current_time |-> 0, found |-> FALSE]]
    /\ Goto(th, "am_lock")
    /\ UNCHANGED <<svars, lock, detached, obs, beyondThread>>

\* add_message_to_session, lines 116-119: the lookup and the in-place append
TAddAppend(th) ==
    /\ tpc[th] = "am_get"
    /\ lock = th
    /\ LET sid == tloc[th].sid
           message == Msg(Len(log[sid]) + 1)
       IN  IF sid \in DOMAIN sessions
           THEN /\ sessions' = [sessions EXCEPT
                                  ![sid].chat_history = Append(@, MessageDict(message))]
                /\ log' = [log EXCEPT ![sid] = Append(@, MessageDict(message))]
                /\ Goto(th, "am_count")
           ELSE /\ Goto(th, "am_unlock")
                /\ UNCHANGED <<sessions, log>>
    /\ UNCHANGED <<last_cleanup, now, ticks, used, lastOp, lock, tloc, detached, obs,
                   beyondThread>>

\* add_message_to_session, line 120
TAddCount(th) ==
    /\ tpc[th] = "am_count"
    /\ lock = th
    /\ sessions' = [sessions EXCEPT ![tloc[th].sid].message_count = @ + 1]
    /\ Goto(th, "am_la")
    /\ UNCHANGED <<last_cleanup, now, ticks, used, log, lastOp, lock, tloc, detached,
                   obs, beyondThread>>

\* add_message_to_session, line 121
TAddTouch(th) ==
    /\ tpc[th] = "am_la"
    /\ lock = th
    /\ sessions' = [sessions EXCEPT ![tloc[th].sid].last_accessed = now]
    /\ Goto(th, "am_trim")
    /\ UNCHANGED <<last_cleanup, now, ticks, used, log, lastOp, lock, tloc, detached,
                   obs, beyondThread>>

\* add_message_to_session, lines 124-125
TAddTrim(th) ==
    /\ tpc[th] = "am_trim"
    /\ lock = th
    /\ sessions' = [sessions EXCEPT ![tloc[th].sid].chat_history = TrimHistory(@)]
    /\ Goto(th, "am_unlock")
    /\ UNCHANGED <<last_cleanup, now, ticks, used, log, lastOp, lock, tloc, detached,
                   obs, beyondThread>>

\* get_chat_history -> get_session, lines 77-80: the clock reading, outside the lock
TGetBegin(th, sid) ==
    /\ tpc[th] = "idle"
    /\ sid # ""
    /\ tloc' = [tloc EXCEPT ![th] = [sid |-> sid, current_time |-> now, found |-> FALSE]]
    /\ Goto(th, "gs_lock")
    /\ UNCHANGED <<svars, lock, detached, obs, beyondThread>>

\* get_session, lines 84-85: the sweep, with its own clock reading
TGetSweep(th) ==
    /\ tpc[th] = "gs_sweep"
    /\ lock = th
    /\ IF SweepDue(tloc[th].current_time, last_cleanup)
       THEN /\ sessions' = CleanupExpiredSessions(sessions, now)
            /\ detached' = Detach(sessions, CleanupExpiredSessions(sessions, now))
            /\ last_cleanup' = now
       ELSE UNCHANGED <<sessions, detached, last_cleanup>>
    /\ Goto(th, "gs_get")
    /\ UNCHANGED <<now, ticks, used, log, lastOp, lock, tloc, obs, beyondThread>>

\* get_session, lines 87-97: the lookup, the expiry test, the refresh
TGetLookup(th) ==
    /\ tpc[th] = "gs_get"
    /\ lock = th
    /\ LET sid == tloc[th].sid
           found == sid \in DOMAIN sessions
           expired == found /\ Expired(tloc[th].current_time, sessions[sid])
       IN  /\ sessions' =
                 IF ~found THEN sessions
                 ELSE IF expired THEN Remove(sessions, sid)
                 ELSE [sessions EXCEPT ![sid].last_accessed = tloc[th].current_time]
           /\ detached' = IF expired THEN Detach(sessions, Remove(sessions, sid))
                          ELSE detached
           /\ tloc' = [tloc EXCEPT ![th].found = found /\ ~expired]
    /\ Goto(th, "gs_unlock")
    /\ UNCHANGED <<last_cleanup, now, ticks, used, log, lastOp, lock, obs, beyondThread>>

\* get_session returns (the lock is released); get_chat_history goes on with
\* the dictionary it was given, or returns [] when it was given None
TGetReturn(th) ==
    /\ tpc[th] = "gs_unlock"
    /\ lock = th
    /\ lock' = "free"
    /\ Goto(th, IF tloc[th].found THEN "gch_read" ELSE "idle")
    /\ UNCHANGED <<svars, tloc, detached, obs, beyondThread>>

\* get_chat_history, lines 143-145: session['chat_history'] is read without
\* the lock
TGetChatHistoryRead(th) ==
    /\ tpc[th] = "gch_read"
    /\ LET sid == tloc[th].sid
           session == IF sid \in DOMAIN sessions THEN sessions[sid] ELSE detached[sid]
       IN  obs' = [obs EXCEPT ![th] = [seen |-> TRUE,
                                       history |-> session.chat_history,
                                       message_count |-> session.message_count]]
    /\ Goto(th, "idle")
    /\ UNCHANGED <<svars, lock, tloc, detached, beyondThread>>

ThreadNext ==
    \/ \E d \in TickSteps : ticks < MaxThreadTicks /\ ThreadTick(d)
    \/ \E th \in Threads : TCreateBegin(th, "s1")
    \/ \E th \in Threads : Acquire(th, "cs_lock", "cs_put")
    \/ \E th \in Threads, c \in CollectionNames : TCreatePut(th, c)
    \/ \E th \in Threads : Release(th, "cs_unlock")
    \/ \E th \in Threads, sid \in SessionIds :
          TotalAppended < MaxThreadAppends /\ TAddBegin(th, sid)
    \/ \E th \in Threads : Acquire(th, "am_lock", "am_get")
    \/ \E th \in Threads : TAddAppend(th)
    \/ \E th \in Threads : TAddCount(th)
    \/ \E th \in Threads : TAddTouch(th)
    \/ \E th \in Threads : TAddTrim(th)
    \/ \E th \in Threads : Release(th, "am_unlock")
    \/ \E th \in Threads, sid \in SessionIds : TGetBegin(th, sid)
    \/ \E th \in Threads : Acquire(th, "gs_lock", "gs_sweep")
    \/ \E th \in Threads : TGetSweep(th)
    \/ \E th \in Threads : TGetLookup(th)
    \/ \E th \in Threads : TGetReturn(th)
    \/ \E th \in Threads : TGetChatHistoryRead(th)

-----------------------------------------------------------------------------
(* The ingestion router (routers/file_process_router.py). The handlers and *)
(* the background routine are coroutines of one event loop: a coroutine    *)
(* runs alone from one await that suspends it to the next, so another      *)
(* coroutine (a poll, a new request, another routine) starts or resumes    *)
(* only while the loop is idle. One action per statement that stores into  *)
(* the registry or calls a collaborator.                                   *)

TaskIds == {"t1", "t2"}
\* project_name, which is also the collection name (lines 115-116)
ProjectNames == {"p1"}
\* the uploads of a request
FileLists == {<<"a.pdf">>, <<"c.txt">>, <<"a.pdf", "B.PDF">>, <<"a.pdf", "c.txt">>}
\* str(e) of the exceptions the collaborators raise
ErrorTexts == {"", "boom"}

\* file.filename.lower().endswith('.pdf')
IsPdfName(f) == f \in {"a.pdf", "B.PDF"}
\* file.endswith('.pdf') in load_and_chunk_pdfs
LoadsAsPdf(f) == f = "a.pdf"

Idle == <<"idle", "-">>
Handler(t) == <<"handler", t>>
Routine(t) == <<"routine", t>>

\* what generate_insights_from_documents returns for a non-empty document
\* list: the model's summary and FAQ, or the placeholder summary, or the
\* error record of its outer except clause
InsightsOutcomes ==
    {[summary |-> "a summary", faq |-> <<"q1">>],
     [summary |-> "Summary unavailable", faq |-> <<>>],
     [summary |-> "Error: llm", faq |-> <<>>]}
\* ... and for an empty one
NoDocumentsInsights == [summary |-> "No documents provided", faq |-> <<>>]

PendingRecordStarted == [status |-> "pending", progress |-> 10]
\* line 98
PendingRecord == [status |-> "pending", progress |-> 0]
\* line 38
ProcessingRecord == [status |-> "processing", progress |-> 0]
\* lines 66-75
CompletedRecord(j) ==
    [status |-> "completed",
     progress |-> 100,
     result |-> [num_documents |-> j.num_documents,
                 collection_name |-> j.project_name,
                 summary |-> j.summary,
                 faq |-> j.faq]]
FailedRecordReenters(e) == [status |-> "pending", progress |-> 0, error |-> e]
\* line 78
FailedRecord(e) == [status |-> "failed", error |-> e]

\* get_task_status: the response for the stored record
TaskStatusResponse(store, task_id) ==
    IF task_id \notin DOMAIN store
    THEN [http |-> 404, task_id |-> task_id]
    ELSE LET task_data == store[task_id]
         IN  IF task_data.status = "completed"
             THEN [http |-> 200, task_id |-> task_id, status |-> "completed",
                   progress |-> 100, result |-> task_data.result]
             ELSE IF task_data.status = "failed"
             THEN [http |-> 200, task_id |-> task_id, status |-> "failed",
                   error |-> task_data.error]
             ELSE [http |-> 200, task_id |-> task_id, status |-> task_data.status,
                   progress |-> task_data.progress]

TasksEmpty ==
    /\ task_status_store = <<>>
    /\ hpc = [t \in TaskIds |-> "none"]
    /\ rpc = [t \in TaskIds |-> "none"]
    /\ running = Idle
    /\ job = [t \in TaskIds |->
                [files |-> <<>>, project_name |-> "", num_documents |-> 0,
                 e |-> "", summary |-> "", faq |-> <<>>]]
    /\ temp_dirs = {}
    /\ milvus = [c \in ProjectNames |-> 0]
    /\ raised = {}
    /\ stored = <<>>
    /\ tresp = [op |-> "none"]

\* create_vector_store, lines 93-95: a file that is not a PDF
CreateVectorStoreRejected(files) ==
    /\ running = Idle
    /\ \E i \in 1..Len(files) : ~IsPdfName(files[i])
    /\ tresp' = [op |-> "create_vector_store", http |-> 400]
    /\ UNCHANGED <<task_status_store, hpc, rpc, running, job, temp_dirs, milvus,
                   raised, stored, beyondTasks>>

\* create_vector_store, lines 93-98: the task is registered (uuid4 never
\* returns an id twice; the ids are handed out in a fixed order)
CreateVectorStore(t, files, project_name) ==
    /\ running = Idle
    /\ hpc[t] = "none"
    /\ t = "t2" => hpc["t1"] # "none"
    /\ \A i \in 1..Len(files) : IsPdfName(files[i])
    /\ task_status_store' = Put(task_status_store, t, PendingRecord)
    /\ job' = [job EXCEPT ![t].files = files, ![t].project_name = project_name]
    /\ hpc' = [hpc EXCEPT ![t] = "registered"]
    /\ running' = Handler(t)
    /\ UNCHANGED <<rpc, temp_dirs, milvus, raised, stored, tresp, beyondTasks>>

\* create_vector_store, lines 100-110: the uploads are copied to temp_pdfs/<task_id>
StageFiles(t) ==
    /\ running = Handler(t)
    /\ hpc[t] = "registered"
    /\ temp_dirs' = temp_dirs \cup {t}
    /\ hpc' = [hpc EXCEPT ![t] = "staged"]
    /\ UNCHANGED <<task_status_store, rpc, running, job, milvus, raised, stored,
                   tresp, beyondTasks>>

\* create_vector_store, lines 100-110: os.makedirs, open or copyfileobj raises;
\* the handler ends with the exception (a 500 response)
StageFilesRaises(t, dir_made) ==
    /\ running = Handler(t)
    /\ hpc[t] = "registered"
    /\ temp_dirs' = IF dir_made THEN temp_dirs \cup {t} ELSE temp_dirs
    /\ hpc' = [hpc EXCEPT ![t] = "raised"]
    /\ raised' = raised \cup {t}
    /\ running' = Idle
    /\ tresp' = [op |-> "create_vector_store", http |-> 500]
    /\ UNCHANGED <<task_status_store, rpc, job, milvus, stored, beyondTasks>>

\* create_vector_store, lines 112-131: asyncio.create_task and the response
ScheduleRoutine(t) ==
    /\ running = Handler(t)
    /\ hpc[t] = "staged"
    /\ hpc' = [hpc EXCEPT ![t] = "returned"]
    /\ rpc' = [rpc EXCEPT ![t] = "scheduled"]
    /\ running' = Idle
    /\ tresp' = [op |-> "create_vector_store", http |-> 200, task_id |-> t,
                 status |-> "pending"]
    /\ UNCHANGED <<task_status_store, job, temp_dirs, milvus, raised, stored,
                   beyondTasks>>

\* process_vector_store_creation, lines 36-38: the loop starts the routine
RoutineStart(t) ==
    /\ running = Idle
    /\ rpc[t] = "scheduled"
    /\ running' = Routine(t)
    /\ task_status_store' = Put(task_status_store, t, ProcessingRecord)
    /\ rpc' = [rpc EXCEPT ![t] = "l40"]
    /\ UNCHANGED <<hpc, job, temp_dirs, milvus, raised, stored, tresp, beyondTasks>>

\* task_status_store[task_id]["progress"] = value (lines 40, 48, 54, 61)
SetProgress(t, at, value, next) ==
    /\ running = Routine(t)
    /\ rpc[t] = at
    /\ task_status_store' = [task_status_store EXCEPT ![t].progress = value]
    /\ rpc' = [rpc EXCEPT ![t] = next]
    /\ UNCHANGED <<hpc, running, job, temp_dirs, milvus, raised, stored, tresp,
                   beyondTasks>>

\* line 50: load_and_chunk_pdfs returns n chunks
LoadAndChunkPdfs(t, n) ==
    /\ running = Routine(t)
    /\ rpc[t] = "l50"
    /\ n > 0 => \E i \in 1..Len(job[t].files) : LoadsAsPdf(job[t].files[i])
    /\ job' = [job EXCEPT ![t].num_documents = n]
    /\ rpc' = [rpc EXCEPT ![t] = "l54"]
    /\ UNCHANGED <<task_status_store, hpc, running, temp_dirs, milvus, raised,
                   stored, tresp, beyondTasks>>

StageRaisesAndGoesOn(t, at, e) ==
    /\ running = Routine(t)
    /\ rpc[t] = at
    /\ job' = [job EXCEPT ![t].e = e]
    /\ raised' = raised \cup {t}
    /\ rpc' = [rpc EXCEPT ![t] = IF at = "l50" THEN "l54" ELSE "l61"]
    /\ UNCHANGED <<task_status_store, hpc, running, temp_dirs, stored, tresp,
                   beyondTasks>>

\* a stage of the routine raises: control goes to the except clause
StageRaises(t, at, e) ==
    /\ running = Routine(t)
    /\ rpc[t] = at
    /\ job' = [job EXCEPT ![t].e = e]
    /\ raised' = raised \cup {t}
    /\ rpc' = [rpc EXCEPT ![t] = "l78"]
    /\ UNCHANGED <<task_status_store, hpc, running, temp_dirs, stored, tresp,
                   beyondTasks>>

\* line 50: load_and_chunk_pdfs raises
LoadAndChunkPdfsRaises(t, e) ==
    /\ StageRaises(t, "l50", e)
    /\ UNCHANGED milvus

\* line 56: create_milvus_vectorstore writes the chunks to the collection
CreateMilvusVectorstore(t) ==
    /\ running = Routine(t)
    /\ rpc[t] = "l56"
    /\ milvus' = [milvus EXCEPT ![job[t].project_name] = @ + job[t].num_documents]
    /\ rpc' = [rpc EXCEPT ![t] = "l61"]
    /\ UNCHANGED <<task_status_store, hpc, running, job, temp_dirs, raised, stored,
                   tresp, beyondTasks>>

\* line 56: create_milvus_vectorstore raises after it wrote some of the chunks
CreateMilvusVectorstoreRaises(t, e, written) ==
    /\ StageRaises(t, "l56", e)
    /\ written <= job[t].num_documents
    /\ milvus' = [milvus EXCEPT ![job[t].project_name] = @ + written]

\* line 64: the call of generate_insights_from_documents. With no documents
\* it returns without awaiting anything; otherwise the routine is suspended
\* at the model calls and the loop is free
InsightsCall(t) ==
    /\ running = Routine(t)
    /\ rpc[t] = "l64"
    /\ IF job[t].num_documents = 0
       THEN /\ job' = [job EXCEPT ![t].summary = NoDocumentsInsights.summary,
                                  ![t].faq = NoDocumentsInsights.faq]
            /\ rpc' = [rpc EXCEPT ![t] = "l66"]
            /\ UNCHANGED running
       ELSE /\ rpc' = [rpc EXCEPT ![t] = "l64_await"]
            /\ running' = Idle
            /\ UNCHANGED job
    /\ UNCHANGED <<task_status_store, hpc, temp_dirs, milvus, raised, stored, tresp,
                   beyondTasks>>

\* line 64: generate_insights_from_documents returns; it catches every
\* exception of the model calls itself
InsightsReturn(t, insights) ==
    /\ running = Idle
    /\ rpc[t] = "l64_await"
    /\ running' = Routine(t)
    /\ job' = [job EXCEPT ![t].summary = insights.summary, ![t].faq = insights.faq]
    /\ rpc' = [rpc EXCEPT ![t] = "l66"]
    /\ UNCHANGED <<task_status_store, hpc, temp_dirs, milvus, raised, stored, tresp,
                   beyondTasks>>

\* lines 66-75
Complete(t) ==
    /\ running = Routine(t)
    /\ rpc[t] = "l66"
    /\ task_status_store' = Put(task_status_store, t, CompletedRecord(job[t]))
    /\ stored' = Put(stored, t, CompletedRecord(job[t]).result)
    /\ rpc' = [rpc EXCEPT ![t] = "l80"]
    /\ UNCHANGED <<hpc, running, job, temp_dirs, milvus, raised, tresp, beyondTasks>>

\* lines 77-78
Fail(t) ==
    /\ running = Routine(t)
    /\ rpc[t] = "l78"
    /\ task_status_store' = Put(task_status_store, t, FailedRecord(job[t].e))
    /\ rpc' = [rpc EXCEPT ![t] = "l80"]
    /\ UNCHANGED <<hpc, running, job, temp_dirs, milvus, raised, stored, tresp,
                   beyondTasks>>

\* lines 79-81: the finally clause removes the directory; the routine ends
RemoveTempDir(t) ==
    /\ running = Routine(t)
    /\ rpc[t] = "l80"
    /\ temp_dirs' = temp_dirs \ {t}
    /\ rpc' = [rpc EXCEPT ![t] = "done"]
    /\ running' = Idle
    /\ UNCHANGED <<task_status_store, hpc, job, milvus, raised, stored, tresp,
                   beyondTasks>>

\* get_task_status
GetTaskStatus(t) ==
    /\ running = Idle
    /\ tresp' = [op |-> "get_task_status",
                 resp |-> TaskStatusResponse(task_status_store, t),
                 hpc |-> hpc[t], rpc |-> rpc[t]]
    /\ UNCHANGED <<task_status_store, hpc, rpc, running, job, temp_dirs, milvus,
                   raised, stored, beyondTasks>>

TaskNext ==
    \/ \E files \in FileLists : CreateVectorStoreRejected(files)
    \/ \E t \in TaskIds, files \in FileLists, p \in ProjectNames :
          CreateVectorStore(t, files, p)
    \/ \E t \in TaskIds : StageFiles(t)
    \/ \E t \in TaskIds, dir_made \in BOOLEAN : StageFilesRaises(t, dir_made)
    \/ \E t \in TaskIds : ScheduleRoutine(t)
    \/ \E t \in TaskIds : RoutineStart(t)
    \/ \E t \in TaskIds : SetProgress(t, "l40", 10, "l48")
    \/ \E t \in TaskIds : SetProgress(t, "l48", 50, "l50")
    \/ \E t \in TaskIds, n \in 0..MaxDocs : LoadAndChunkPdfs(t, n)
    \/ \E t \in TaskIds, e \in ErrorTexts : LoadAndChunkPdfsRaises(t, e)
    \/ \E t \in TaskIds : SetProgress(t, "l54", 75, "l56")
    \/ \E t \in TaskIds : CreateMilvusVectorstore(t)
    \/ \E t \in TaskIds, e \in ErrorTexts, written \in 0..MaxDocs :
          CreateMilvusVectorstoreRaises(t, e, written)
    \/ \E t \in TaskIds : SetProgress(t, "l61", 85, "l64")
    \/ \E t \in TaskIds : InsightsCall(t)
    \/ \E t \in TaskIds, insights \in InsightsOutcomes : InsightsReturn(t, insights)
    \/ \E t \in TaskIds : Complete(t)
    \/ \E t \in TaskIds : Fail(t)
    \/ \E t \in TaskIds : RemoveTempDir(t)
    \/ \E t \in TaskIds : GetTaskStatus(t)

\* the steps of the routine of task t: the event loop runs a scheduled
\* coroutine, and resumes it when what it awaits is done
RoutineStep(t) ==
    \/ RoutineStart(t)
    \/ SetProgress(t, "l40", 10, "l48")
    \/ SetProgress(t, "l48", 50, "l50")
    \/ \E n \in 0..MaxDocs : LoadAndChunkPdfs(t, n)
    \/ \E e \in ErrorTexts : LoadAndChunkPdfsRaises(t, e)
    \/ SetProgress(t, "l54", 75, "l56")
    \/ CreateMilvusVectorstore(t)
    \/ \E e \in ErrorTexts, written \in 0..MaxDocs :
          CreateMilvusVectorstoreRaises(t, e, written)
    \/ SetProgress(t, "l61", 85, "l64")
    \/ InsightsCall(t)
    \/ \E outcome \in InsightsOutcomes : InsightsReturn(t, outcome)
    \/ Complete(t)
    \/ Fail(t)
    \/ RemoveTempDir(t)

-----------------------------------------------------------------------------
(* The streaming endpoints of routers/rag_router.py: asyncStreamQuery      *)
(* ("v1"), asyncStreamQueryV2 ("v2") and personaStreamQuery ("persona").   *)
(* A request shares nothing with another request: generate_stream works on *)
(* locals of its handler, so one request is modelled.                      *)
(*                                                                         *)
(* A text is a sequence of tokens: a token is a word, a blank, a newline,  *)
(* one of the sources markers, or a whole citation in brackets.            *)

Endpoints == {"v1", "v2", "persona"}
\* request.collection_name
StreamCollection == "c1"
\* request.persona
Personas == {"ux", "sales", "Technical", "MANAGEMENT", "default", "bogus"}
\* request.question
Questions == {"", "q"}
\* what transcribe_audio returns
Transcripts == {"", "heard"}

\* the bodies of a ChatRequest; has_audio stands for: audio_data or audio_url
\* is given; the body has no persona
ChatRequests ==
    [question : Questions, is_audio : BOOLEAN, has_audio : BOOLEAN, persona : {"-"}]
\* the bodies of a PersonaChatRequest
PersonaChatRequests ==
    [question : Questions, is_audio : BOOLEAN, has_audio : BOOLEAN, persona : Personas]
Requests(ep) == IF ep = "persona" THEN PersonaChatRequests ELSE ChatRequests

\* persona.lower()
Lower(persona) ==
    IF persona = "Technical" THEN "technical"
    ELSE IF persona = "MANAGEMENT" THEN "management"
    ELSE persona

\* persona.upper()
Upper(persona) ==
    IF persona = "ux" THEN "UX"
    ELSE IF persona = "sales" THEN "SALES"
    ELSE IF persona = "Technical" THEN "TECHNICAL"
    ELSE IF persona = "default" THEN "DEFAULT"
    ELSE IF persona = "bogus" THEN "BOGUS"
    ELSE persona

\* language_instruction of the prompt builders
LanguageInstruction(response_language) ==
    IF response_language \in {"de", "DE", "De", "dE"} THEN "German" ELSE "English"

\* get_rag_sys_prompt: the text around the fields, and the fields
get_rag_sys_prompt(response_language) ==
    <<"You are a Cambridge School textbook assistant.",
      "The language of generated answers must always be in",
      LanguageInstruction(response_language),
      "{context}", "{question}", "{chat_history}">>

\* persona_contexts, lines 77-83
persona_contexts ==
    [p \in {"ux", "sales", "technical", "management", "default"} |->
        IF p = "ux" THEN "Analyze this from a User Experience perspective."
        ELSE IF p = "sales" THEN "Analyze this from a Sales and Business perspective."
        ELSE IF p = "technical" THEN "Analyze this from a Technical perspective."
        ELSE IF p = "management"
        THEN "Analyze this from a Strategic Management perspective."
        ELSE "Provide expert analysis based on the provided context."]

PersonaInstructionAsGiven(persona) ==
    IF persona \in DOMAIN persona_contexts
    THEN persona_contexts[persona] ELSE persona_contexts["default"]
\* line 85: persona_contexts.get(persona.lower(), persona_contexts["default"])
PersonaInstruction(persona) ==
    IF Lower(persona) \in DOMAIN persona_contexts
    THEN persona_contexts[Lower(persona)] ELSE persona_contexts["default"]

\* get_persona_rag_prompt: the text around the fields, and the fields
get_persona_rag_prompt(persona, response_language) ==
    <<"You are a Cambridge School textbook assistant with",
      Upper(persona),
      "expertise for Grade 6-8 students.",
      PersonaInstruction(persona),
      "The language of generated answers must always be in",
      LanguageInstruction(response_language),
      "{context}", "{question}", "{chat_history}">>

valid_personas == {"ux", "sales", "technical", "management", "default"}

PassesValidationByFlag(ep, req) ==
    IF ep = "persona"
    THEN Lower(req.persona) \in valid_personas
    ELSE req.is_audio \/ req.question # ""
\* the checks of a handler before it builds the chain: TRUE when none of
\* them raises
PassesValidation(ep, req) ==
    IF ep = "persona"
    THEN /\ Lower(req.persona) \in valid_personas
         /\ (req.is_audio /\ req.has_audio) \/ req.question # ""
    ELSE IF req.is_audio THEN req.has_audio ELSE req.question # ""

\* the retrieved documents: metadata 'source' and 'page'
Docs == {[source |-> "a.pdf", page |-> 1], [source |-> "b.pdf", page |-> 2]}

RECURSIVE SeqsUpTo(_, _)
\* the sequences over S of length at most n
SeqsUpTo(S, n) ==
    IF n = 0 THEN {<<>>}
    ELSE LET shorter == SeqsUpTo(S, n - 1)
         IN  shorter \cup {Append(q, x) : q \in shorter, x \in S}

DocLists == SeqsUpTo(Docs, MaxRetrieved)

\* str(doc_page)
PageText(page) == IF page = 1 THEN "1" ELSE "2"

\* the three citations the language model writes: one of a.pdf page 1, one
\* of a document that was not retrieved, one without the comma
CiteA == "[Source: a.pdf, Page: 1]"
CiteZ == "[Source: zzz, Page: 9]"
CiteNoComma == "[Source: a.pdf Page: 1]"
CitationTokens == {CiteA, CiteZ, CiteNoComma}

\* source_text.split(','), each part with its label 'Source:' or 'Page:'
\* replaced by nothing and stripped
CitationParts(token) ==
    IF token = CiteA THEN <<"a.pdf", "1">>
    ELSE IF token = CiteZ THEN <<"zzz", "9">>
    ELSE <<"a.pdf Page: 1">>

\* needle in hay, for the file names of Docs and the parts of the
\* citations: none of them is a part of another one
IsSubstring(needle, hay) == needle = hay

Whitespace == {" ", "\n"}

\* the chunks chain.astream yields: message chunks with a content (the empty
\* one too) and a dict with an answer. Every citation stands on a line of
\* its own.
Message(content) == [kind |-> "message", content |-> content]
AnswerDict(answer) == [kind |-> "dict", content |-> answer]
Chunks ==
    {Message(<<"x", " ">>),
     Message(<<>>),
     Message(<<"SOURCES:", "\n", CiteA, "\n", CiteZ, "\n">>),
     Message(<<" ", "Sources:", "\n", CiteNoComma, "\n">>),
     AnswerDict(<<"y">>)}

\* the branches of the loop over chain.astream: whether the chunk is
\* emitted, and with which content
ChunkContent(ep, chunk) ==
    IF chunk.kind = "message" /\ chunk.content # <<>>
    THEN [emit |-> TRUE, content |-> chunk.content]
    ELSE IF ep = "v1" /\ chunk.kind = "dict"
    THEN [emit |-> TRUE, content |-> chunk.content]
    ELSE [emit |-> FALSE, content |-> <<>>]

\* a frame "data: <json>\n\n"
Event(data) == [line |-> "json", data |-> data]
DoneAsEvent == [line |-> "json", data |-> [type |-> "done"]]
\* the frame "data: [DONE]\n\n"
Done == [line |-> "[DONE]"]

\* source_data, lines 145-152
SourceData(doc) ==
    [type |-> "source", reference |-> <<doc.source, ", Page: ", PageText(doc.page)>>]

ContentDataAsDelta(ep, content, req) ==
    [type |-> "delta", content |-> content, role |-> "assistant"]
\* chunk_data
ContentData(ep, content, req) ==
    IF ep = "persona"
    THEN [type |-> "content", content |-> content, role |-> "assistant",
          persona |-> req.persona]
    ELSE [type |-> "content", content |-> content, role |-> "assistant",
          collection |-> StreamCollection]

\* meta_data, lines 469-473
MetaData(req) ==
    [type |-> "persona_info", persona |-> req.persona, collection |-> StreamCollection]

ErrorDataAsComplete(e) == [type |-> "complete", error |-> e]
\* error_data
ErrorData(e) == [type |-> "error", error |-> e]

\* transcribed_text if transcribed_text else None
TranscribedOrNone(t) == IF t # "" THEN t ELSE "None"

\* final_data of asyncStreamQuery and asyncStreamQueryV2
FinalData(content, srcs, transcribed) ==
    [type |-> "complete", role |-> "assistant", content |-> content,
     sources |-> srcs, collection |-> StreamCollection,
     transcribed_text |-> TranscribedOrNone(transcribed)]

\* marker in s
Contains(s, token) == \E i \in 1..Len(s) : s[i] = token

RECURSIVE Split(_, _)
\* s.split(token): the parts of s between the occurrences of token
Split(s, token) ==
    IF ~Contains(s, token) THEN <<s>>
    ELSE LET i == CHOOSE k \in 1..Len(s) :
                      s[k] = token /\ \A j \in 1..(k - 1) : s[j] # token
         IN  <<SubSeq(s, 1, i - 1)>> \o Split(SubSeq(s, i + 1, Len(s)), token)

StripNothing(s) == s
RECURSIVE Strip(_)
\* s.strip()
Strip(s) ==
    IF s = <<>> THEN s
    ELSE IF Head(s) \in Whitespace THEN Strip(Tail(s))
    ELSE IF s[Len(s)] \in Whitespace THEN Strip(SubSeq(s, 1, Len(s) - 1))
    ELSE s

\* line 495
sources_markers == <<"SOURCES:", "REFERENCES:", "Sources:", "References:">>

\* lines 496-502: the first marker of the list that the text contains
\* splits it; 0 stands for: no marker
FoundMarker(text) ==
    IF \E m \in 1..Len(sources_markers) : Contains(text, sources_markers[m])
    THEN CHOOSE m \in 1..Len(sources_markers) :
            /\ Contains(text, sources_markers[m])
            /\ \A n \in 1..(m - 1) : ~Contains(text, sources_markers[n])
    ELSE 0

ProcessedContent(text) ==
    IF FoundMarker(text) = 0 THEN text
    ELSE Strip(Split(text, sources_markers[FoundMarker(text)])[1])

SourcesSection(text) ==
    IF FoundMarker(text) = 0 THEN <<>>
    ELSE Strip(Split(text, sources_markers[FoundMarker(text)])[2])

RECURSIVE StripEach(_)
\* line 505: the stripped lines that are not empty
StripEach(lines) ==
    IF lines = <<>> THEN <<>>
    ELSE LET line == Strip(Head(lines))
         IN  (IF line = <<>> THEN <<>> ELSE <<line>>) \o StripEach(Tail(lines))

SourceLines(section) == StripEach(Split(section, "\n"))

\* lines 515-526: the entry of the first retrieved document the citation
\* names, none if it names none
MatchedSource(line, filename_part, page_part, docs) ==
    LET hits == {i \in 1..Len(docs) :
                    /\ \/ IsSubstring(docs[i].source, filename_part)
                       \/ IsSubstring(filename_part, docs[i].source)
                    /\ PageText(docs[i].page) = page_part}
    IN  IF hits = {} THEN <<>>
        ELSE LET i == CHOOSE h \in hits : \A g \in hits : h <= g
             IN  <<[source |-> docs[i].source, page |-> docs[i].page,
                    reference |-> line]>>

\* lines 507-532: the entries one line of the sources section adds
LineSources(line, docs) ==
    IF ~(Len(line) = 1 /\ line[1] \in CitationTokens) THEN <<>>
    ELSE LET source_parts == CitationParts(line[1])
         IN  IF Len(source_parts) < 2
             THEN <<[source |-> "Unknown", page |-> 1, reference |-> line]>>
             ELSE MatchedSource(line, source_parts[1], source_parts[2], docs)

RECURSIVE ExtractSources(_, _)
\* lines 504-532
ExtractSources(lines, docs) ==
    IF lines = <<>> THEN <<>>
    ELSE LineSources(Head(lines), docs) \o ExtractSources(Tail(lines), docs)

\* completion_data, lines 490-541
CompletionData(text, docs, req) ==
    [type |-> "complete", role |-> "assistant", persona |-> req.persona,
     collection |-> StreamCollection,
     content |-> ProcessedContent(text),
     sources |-> ExtractSources(SourceLines(SourcesSection(text)), docs)]

NoException == [raised |-> FALSE, e |-> ""]

NoRequest ==
    /\ endpoint = "none"
    /\ request = [question |-> "", is_audio |-> FALSE, has_audio |-> FALSE,
                  persona |-> "-"]
    /\ spc = "idle"
    /\ http = 0
    /\ transcribed_text = ""
    /\ retrieved_docs = <<>>
    /\ sources = <<>>
    /\ full_content = <<>>
    /\ frames = <<>>
    /\ nchunks = 0
    /\ exc = NoException
    /\ called = {}
    /\ system_prompt = <<>>

\* whether the handler calls transcribe_audio (lines 112-116, 228-232)
Transcribes(ep, req) == ep # "persona" /\ req.is_audio

\* the handler raises HTTPException(400) inside its try statement; the
\* except clause (lines 216-218, 317-318, 559-560) turns it into a 500
RequestRejected(ep, req) ==
    /\ spc = "idle"
    /\ ~PassesValidation(ep, req)
    /\ endpoint' = ep
    /\ request' = req
    /\ spc' = "rejected"
    /\ http' = 500
    /\ UNCHANGED <<transcribed_text, retrieved_docs, sources, full_content, frames,
                   nchunks, exc, called, system_prompt, beyondStreams>>

\* the collaborators a handler calls before it returns the stream, in the
\* order of the calls: transcribe_audio and the collection load of
\* aget_chat_chain, or for personaStreamQuery the collection load and the
\* retrieval of lines 443-444
HandlerCalls(ep, req) ==
    IF ep = "persona" THEN <<"load", "retrieve">>
    ELSE IF Transcribes(ep, req) THEN <<"transcribe", "load">>
    ELSE <<"load">>

\* the elements of a sequence up to position n
Upto(calls, n) == {calls[i] : i \in 1..n}

\* the n-th collaborator call of the handler raises; the except clause
\* answers 500
RequestFails(ep, req, n) ==
    /\ spc = "idle"
    /\ PassesValidation(ep, req)
    /\ n \in 1..Len(HandlerCalls(ep, req))
    /\ endpoint' = ep
    /\ request' = req
    /\ spc' = "failed"
    /\ http' = 500
    /\ called' = Upto(HandlerCalls(ep, req), n)
    /\ UNCHANGED <<transcribed_text, retrieved_docs, sources, full_content, frames,
                   nchunks, exc, system_prompt, beyondStreams>>

\* asyncStreamQuery and asyncStreamQueryV2 up to the StreamingResponse
ChatWithRagStream(ep, req, transcript) ==
    /\ spc = "idle"
    /\ ep \in {"v1", "v2"}
    /\ PassesValidation(ep, req)
    /\ endpoint' = ep
    /\ request' = req
    /\ transcribed_text' = IF Transcribes(ep, req) THEN transcript ELSE ""
    /\ called' = Upto(HandlerCalls(ep, req), Len(HandlerCalls(ep, req)))
    /\ system_prompt' = get_rag_sys_prompt("en")
    /\ spc' = "retrieve"
    /\ http' = 200
    /\ UNCHANGED <<retrieved_docs, sources, full_content, frames, nchunks, exc,
                   beyondStreams>>

\* personaStreamQuery up to the StreamingResponse: the documents are
\* retrieved and the prompt is assembled before the stream starts
ChatWithPersonaRagStream(req, docs) ==
    /\ spc = "idle"
    /\ PassesValidation("persona", req)
    /\ endpoint' = "persona"
    /\ request' = req
    /\ retrieved_docs' = docs
    /\ called' = {"load", "retrieve"}
    /\ system_prompt' = get_persona_rag_prompt(req.persona, "en")
    /\ spc' = "persona_info"
    /\ http' = 200
    /\ UNCHANGED <<transcribed_text, sources, full_content, frames, nchunks, exc,
                   beyondStreams>>

\* lines 141-142, 257-258
Retrieve(docs) ==
    /\ spc = "retrieve"
    /\ retrieved_docs' = docs
    /\ called' = called \cup {"load", "retrieve"}
    /\ spc' = IF docs = <<>> THEN "astream" ELSE "sources"
    /\ UNCHANGED <<endpoint, request, http, transcribed_text, sources, full_content,
                   frames, nchunks, exc, system_prompt, beyondStreams>>

\* control reaches the except clause of generate_stream, after the calls
Raise(e, calls) ==
    /\ exc' = [raised |-> TRUE, e |-> e]
    /\ called' = called \cup calls
    /\ spc' = "except"
    /\ UNCHANGED <<endpoint, request, http, transcribed_text, retrieved_docs,
                   sources, full_content, frames, nchunks, system_prompt,
                   beyondStreams>>

\* lines 141-142, 257-258: the collection load (n = 1) or the retrieval
\* (n = 2) raises
RetrieveRaises(e, n) ==
    /\ spc = "retrieve"
    /\ Raise(e, Upto(<<"load", "retrieve">>, n))

\* lines 144-154, 260-270: one turn of the loop over retrieved_docs
EmitSource ==
    /\ spc = "sources"
    /\ LET source_data == SourceData(retrieved_docs[Len(sources) + 1])
       IN  /\ sources' = Append(sources, source_data)
           /\ frames' = Append(frames, Event(source_data))
    /\ spc' = IF Len(sources) + 1 = Len(retrieved_docs) THEN "astream" ELSE "sources"
    /\ UNCHANGED <<endpoint, request, http, transcribed_text, retrieved_docs,
                   full_content, nchunks, exc, called, system_prompt, beyondStreams>>

\* lines 469-474
EmitPersonaInfo ==
    /\ spc = "persona_info"
    /\ frames' = Append(frames, Event(MetaData(request)))
    /\ spc' = "astream"
    /\ UNCHANGED <<endpoint, request, http, transcribed_text, retrieved_docs,
                   sources, full_content, nchunks, exc, called, system_prompt, beyondStreams>>

\* what chain.astream calls before it yields its first chunk: the chain of
\* aget_chat_chain retrieves and then calls the language model, the chain of
\* personaStreamQuery calls the language model
ChainCalls(ep) == IF ep = "persona" THEN <<"llm">> ELSE <<"retrieve", "llm">>

\* lines 161-181, 272-284, 476-488: one turn of the loop over chain.astream
NextChunk(chunk) ==
    /\ spc = "astream"
    /\ nchunks < MaxChunks
    /\ nchunks' = nchunks + 1
    /\ called' = called \cup Upto(ChainCalls(endpoint), Len(ChainCalls(endpoint)))
    /\ LET c == ChunkContent(endpoint, chunk)
       IN  IF c.emit
           THEN /\ frames' = Append(frames,
                                    Event(ContentData(endpoint, c.content, request)))
                /\ full_content' = full_content \o c.content
           ELSE UNCHANGED <<frames, full_content>>
    /\ UNCHANGED <<endpoint, request, spc, http, transcribed_text, retrieved_docs,
                   sources, exc, system_prompt, beyondStreams>>

\* chain.astream raises in its n-th call: the retrieval inside the chain or
\* the language model (the language model, once a chunk was produced)
AstreamRaises(e, n) ==
    /\ spc = "astream"
    /\ n \in 1..Len(ChainCalls(endpoint))
    /\ nchunks > 0 => n = Len(ChainCalls(endpoint))
    /\ Raise(e, Upto(ChainCalls(endpoint), n))

\* lines 186-194, 289-297, 490-542: chain.astream is exhausted
EmitComplete ==
    /\ spc = "astream"
    /\ called' = called \cup Upto(ChainCalls(endpoint), Len(ChainCalls(endpoint)))
    /\ frames' = Append(frames,
          Event(IF endpoint = "persona"
                THEN CompletionData(full_content, retrieved_docs, request)
                ELSE FinalData(full_content, sources, transcribed_text)))
    /\ spc' = "complete_sent"
    /\ UNCHANGED <<endpoint, request, http, transcribed_text, retrieved_docs,
                   sources, full_content, nchunks, exc, system_prompt,
                   beyondStreams>>

EmitDoneWithoutSentinel ==
    /\ spc = "complete_sent"
    /\ spc' = "finished"
    /\ UNCHANGED <<endpoint, request, http, transcribed_text, retrieved_docs, frames,
                   sources, full_content, nchunks, exc, called, system_prompt, beyondStreams>>

\* lines 195, 298, 543
EmitDone ==
    /\ spc = "complete_sent"
    /\ frames' = Append(frames, Done)
    /\ spc' = "finished"
    /\ UNCHANGED <<endpoint, request, http, transcribed_text, retrieved_docs,
                   sources, full_content, nchunks, exc, called, system_prompt, beyondStreams>>

\* lines 197-203, 300-305, 545-547
EmitError ==
    /\ spc = "except"
    /\ frames' = Append(frames, Event(ErrorData(exc.e)))
    /\ spc' = "finished"
    /\ UNCHANGED <<endpoint, request, http, transcribed_text, retrieved_docs,
                   sources, full_content, nchunks, exc, called, system_prompt, beyondStreams>>

StreamNext ==
    \/ \E ep \in Endpoints : \E req \in Requests(ep) : RequestRejected(ep, req)
    \/ \E ep \in Endpoints : \E req \in Requests(ep) : \E n \in 1..2 :
          RequestFails(ep, req, n)
    \/ \E ep \in {"v1", "v2"}, req \in ChatRequests, transcript \in Transcripts :
          ChatWithRagStream(ep, req, transcript)
    \/ \E req \in PersonaChatRequests, docs \in DocLists :
          ChatWithPersonaRagStream(req, docs)
    \/ \E docs \in DocLists : Retrieve(docs)
    \/ \E e \in ErrorTexts, n \in 1..2 : RetrieveRaises(e, n)
    \/ EmitSource
    \/ EmitPersonaInfo
    \/ \E chunk \in Chunks : NextChunk(chunk)
    \/ \E e \in ErrorTexts, n \in 1..2 : AstreamRaises(e, n)
    \/ EmitComplete
    \/ EmitDone
    \/ EmitError

\* the steps of generate_stream: the server iterates the generator of a
\* StreamingResponse until it is exhausted
GeneratorStep ==
    \/ \E docs \in DocLists : Retrieve(docs)
    \/ \E e \in ErrorTexts, n \in 1..2 : RetrieveRaises(e, n)
    \/ EmitSource
    \/ EmitPersonaInfo
    \/ \E chunk \in Chunks : NextChunk(chunk)
    \/ \E e \in ErrorTexts, n \in 1..2 : AstreamRaises(e, n)
    \/ EmitComplete
    \/ EmitDone
    \/ EmitError

-----------------------------------------------------------------------------
(* The collections of the vector store: deleteCollection of                *)
(* routers/rag_router.py, RagRepo._ensure_collection_loaded and the        *)
(* indexing of FileProcessingRepo.create_milvus_vectorstore.               *)

\* request.collection_name
CollectionInputs == {"c1", "c2"}

NoCollections ==
    /\ collections = {}
    /\ loaded = {}
    /\ preloaded_collections = {}
    /\ cresp = [op |-> "none"]

\* Milvus.from_documents with drop_old=False: the collection exists afterwards
IndexDocuments(c) ==
    /\ collections' = collections \cup {c}
    /\ cresp' = [op |-> "create_milvus_vectorstore", collection_name |-> c,
                 before |-> collections]
    /\ UNCHANGED <<loaded, preloaded_collections, beyondCollections>>

\* _ensure_collection_loaded: a name that is not in the set is loaded and
\* added; Collection(name).load() raises for a collection that does not
\* exist, and connections.connect raises when the store is unreachable
EnsureCollectionLoaded(c, reachable) ==
    /\ IF c \in preloaded_collections
       THEN /\ UNCHANGED <<loaded, preloaded_collections>>
            /\ cresp' = [op |-> "_ensure_collection_loaded", collection_name |-> c,
                         before |-> collections, raised |-> FALSE]
       ELSE IF reachable /\ c \in collections
       THEN /\ loaded' = loaded \cup {c}
            /\ preloaded_collections' = preloaded_collections \cup {c}
            /\ cresp' = [op |-> "_ensure_collection_loaded", collection_name |-> c,
                         before |-> collections, raised |-> FALSE]
       ELSE /\ UNCHANGED <<loaded, preloaded_collections>>
            /\ cresp' = [op |-> "_ensure_collection_loaded", collection_name |-> c,
                         before |-> collections, raised |-> TRUE]
    /\ UNCHANGED <<collections, beyondCollections>>

\* DeleteCollectionResponse, or the HTTPException(500) of the except clause
DeleteResponse(status_code, success) == [http |-> status_code, success |-> success]

DropsWhenFound(confirm, found) == found
\* lines 376-389: whether delete_collection calls utility.drop_collection
Drops(confirm, found) == confirm /\ found

\* delete_collection with every collaborator call succeeding
DeleteCollection(c, confirm) ==
    /\ collections' = IF Drops(confirm, c \in collections)
                      THEN collections \ {c} ELSE collections
    /\ loaded' = IF Drops(confirm, c \in collections) THEN loaded \ {c} ELSE loaded
    /\ cresp' = [op |-> "delete_collection", collection_name |-> c,
                 confirm |-> confirm, before |-> collections,
                 response |-> DeleteResponse(200, Drops(confirm, c \in collections))]
    /\ UNCHANGED <<preloaded_collections, beyondCollections>>

\* delete_collection when a call of the vector store raises: connect (line
\* 370), has_collection (387), drop_collection (388, with or without the
\* collection dropped) or disconnect (413); the answer is 500
DeleteCollectionRaises(c, confirm, at, dropped) ==
    /\ at \in {"connect", "has_collection", "drop_collection", "disconnect"}
    /\ at \in {"has_collection", "drop_collection"} => confirm
    /\ at = "drop_collection" => c \in collections
    /\ LET drops == \/ at = "drop_collection" /\ dropped
                    \/ at = "disconnect" /\ Drops(confirm, c \in collections)
       IN  /\ collections' = IF drops THEN collections \ {c} ELSE collections
           /\ loaded' = IF drops THEN loaded \ {c} ELSE loaded
    /\ cresp' = [op |-> "delete_collection", collection_name |-> c,
                 confirm |-> confirm, before |-> collections,
                 response |-> DeleteResponse(500, FALSE)]
    /\ UNCHANGED <<preloaded_collections, beyondCollections>>

CollectionNext ==
    \/ \E c \in CollectionInputs : IndexDocuments(c)
    \/ \E c \in CollectionInputs, reachable \in BOOLEAN :
          EnsureCollectionLoaded(c, reachable)
    \/ \E c \in CollectionInputs, confirm \in BOOLEAN : DeleteCollection(c, confirm)
    \/ \E c \in CollectionInputs, confirm \in BOOLEAN, dropped \in BOOLEAN,
          at \in {"connect", "has_collection", "drop_collection", "disconnect"} :
          DeleteCollectionRaises(c, confirm, at, dropped)

-----------------------------------------------------------------------------
(* The authentication gate (utility/auth_middleware.py) in front of a      *)
(* protected route (routers/general_utility_router.py). jwt.decode is the  *)
(* PyJWT library: it rejects a token that is not a JWT, one signed with    *)
(* another key, and one whose exp has passed; whether it rejects exp equal *)
(* to the current second and an iat in the future depends on its version.  *)

\* the claims UserData is built from (lines 37-43)
UserClaims == {"id", "email", "name", "iat", "exp"}

\* the claim sets of the tokens: all five, and all but one
ClaimSets == {UserClaims} \cup {UserClaims \ {c} : c \in UserClaims}

\* the times of the model: the request is made at AuthNow
AuthNow == 5
ExpValues == {4, 5, 6, 8}
IatValues == {1, 9}
\* datetime.utcnow().timestamp() reads the naive UTC time as local time: it
\* is off by the server's UTC offset
UtcOffsets == {-2, 0, 2}

\* a string that is not a JWT
MalformedToken ==
    [wellformed |-> FALSE, key |-> "none", claims |-> {}, exp |-> 0, iat |-> 0]

\* the bearer tokens: signed with the configured secret or another key
Tokens ==
    {MalformedToken} \cup
    {[wellformed |-> TRUE, key |-> k, claims |-> cs,
      exp |-> IF "exp" \in cs THEN e ELSE 0,
      iat |-> IF "iat" \in cs THEN i ELSE 0] :
        k \in {"JWT_SECRET", "other"}, cs \in ClaimSets, e \in ExpValues, i \in IatValues}

\* the versions of the library
JwtVersions == [exp_inclusive : BOOLEAN, checks_iat : BOOLEAN]

JwtDecodeUnverified(tok, jwt_now, version) ==
    IF ~tok.wellformed THEN "DecodeError" ELSE "payload"
\* jwt.decode(token, self.jwt_secret, algorithms=[...]), line 26: the
\* exception it raises, or "payload"
JwtDecode(tok, jwt_now, version) ==
    IF ~tok.wellformed THEN "DecodeError"
    ELSE IF tok.key # "JWT_SECRET" THEN "InvalidSignatureError"
    ELSE IF "exp" \in tok.claims
            /\ (tok.exp < jwt_now \/ (version.exp_inclusive /\ tok.exp = jwt_now))
    THEN "ExpiredSignatureError"
    ELSE IF "iat" \in tok.claims /\ version.checks_iat /\ tok.iat > jwt_now
    THEN "ImmatureSignatureError"
    ELSE "payload"

\* the HTTPException(401) of the except clauses, lines 50-69
Unauthorized(detail) == [status |-> 401, detail |-> detail]

\* AuthMiddleware.__call__, lines 17-69
AuthResult(tok, jwt_now, version, current_time) ==
    LET decoded == JwtDecode(tok, jwt_now, version)
    IN  IF decoded = "ExpiredSignatureError" THEN Unauthorized("Token has expired")
        ELSE IF decoded # "payload" THEN Unauthorized("Invalid token")
        ELSE IF "exp" \in tok.claims /\ tok.exp # 0 /\ tok.exp < current_time
        THEN Unauthorized("Authentication failed")
        ELSE IF ~(UserClaims \subseteq tok.claims)
        THEN Unauthorized("Missing required field in token")
        ELSE [status |-> 200, user |-> [exp |-> tok.exp, iat |-> tok.iat]]

NoProtectedRequest ==
    /\ apc = "idle"
    /\ bearer = MalformedToken
    /\ auth_time = 0
    /\ aresp = [status |-> 0]

\* a request to a protected route: the dependency auth_middleware runs
AuthMiddlewareCall(tok, version, utc_offset) ==
    /\ apc = "idle"
    /\ bearer' = tok
    /\ auth_time' = AuthNow
    /\ aresp' = AuthResult(tok, AuthNow, version, AuthNow + utc_offset)
    /\ apc' = IF aresp'.status = 200 THEN "authenticated" ELSE "rejected"
    /\ UNCHANGED beyondAuth

\* the body of the protected operation (create_session, lines 18-30) runs
\* with the identity the dependency returned
ProtectedBody ==
    /\ apc = "authenticated"
    /\ apc' = "body_done"
    /\ UNCHANGED <<bearer, auth_time, aresp, beyondAuth>>

AuthNext ==
    \/ \E tok \in Tokens, version \in JwtVersions, utc_offset \in UtcOffsets :
          AuthMiddlewareCall(tok, version, utc_offset)
    \/ ProtectedBody

-----------------------------------------------------------------------------
(* AiUtilityRepo.generate_insights_from_documents                          *)
(* (repository/ai_utilities/ai_utility_repo.py) and the statement of the   *)
(* ingestion routine that stores what it returns. Texts are sequences of   *)
(* tokens.                                                                 *)

\* the argument: no document, or the chunks of the ingestion
DocumentLists == {<<>>, <<"chunk">>}

\* the content of the model's answer to the FAQ prompt: a JSON array of
\* question/answer objects, a JSON value that is not a list, and a text that
\* is not JSON
JsonList == "[{question: q1, answer: a1}]"
JsonObject == "{}"
PlainLine == "q1?"

\* what one call of self.llm.ainvoke does: it raises, or it returns a message
LlmResults(contents) ==
    [raised : {TRUE}, e : ErrorTexts] \cup [raised : {FALSE}, content : contents]
SummaryResults == LlmResults({<<>>, <<"a summary">>})
FaqResults == LlmResults({<<>>, <<JsonList>>, <<JsonObject>>, <<PlainLine>>})

\* one entry of the record of model calls
LlmCall(prompt, budget, result) ==
    [prompt |-> prompt, budget |-> budget, result |-> result]

\* lines 200-221: json.loads of the cleaned text and the normalisation of its
\* items, or the lines of the text as question/answer pairs when json.loads
\* raises or the value is not a list
FaqItems(raw) ==
    IF raw = <<JsonList>> THEN <<[question |-> "q1", answer |-> "a1"]>>
    ELSE [i \in 1..Len(raw) |-> [question |-> raw[i], answer |-> raw[i]]]

\* lines 124-128
NoDocumentsReturn == [summary |-> <<"No documents provided">>, faq |-> <<>>]

NoInsightsCall ==
    /\ ipc = "idle"
    /\ documents = <<>>
    /\ results = <<>>
    /\ summary_text = <<>>
    /\ faq_raw = <<>>
    /\ llm_calls = <<>>
    /\ insights_returned = <<>>
    /\ insights_task = "processing"

\* lines 122-128: the call, and the return for an empty list
GenerateInsightsFromDocuments(docs) ==
    /\ ipc = "idle"
    /\ documents' = docs
    /\ IF docs = <<>>
       THEN insights_returned' = NoDocumentsReturn /\ ipc' = "returned"
       ELSE insights_returned' = insights_returned /\ ipc' = "gather"
    /\ UNCHANGED <<results, summary_text, faq_raw, llm_calls, insights_task,
                   beyondInsights>>

\* lines 157-162: the two model calls under asyncio.gather(return_exceptions=True)
Gather(r0, r1) ==
    /\ ipc = "gather"
    /\ results' = <<r0, r1>>
    /\ llm_calls' = llm_calls \o
                       <<LlmCall("summary", "full", r0), LlmCall("faq", "full", r1)>>
    /\ ipc' = "summary"
    /\ UNCHANGED <<documents, summary_text, faq_raw, insights_returned, insights_task,
                   beyondInsights>>

OuterExceptReraises(e) ==
    /\ ipc' = "raised"
    /\ UNCHANGED insights_returned

\* lines 227-232: the except clause of the whole body
OuterExcept(e) ==
    /\ insights_returned' = [summary |-> <<"Error: ", e>>, faq |-> <<>>]
    /\ ipc' = "returned"

\* line 172
SummaryFromResult ==
    /\ ipc = "summary"
    /\ ~results[1].raised
    /\ summary_text' = results[1].content
    /\ ipc' = "faq"
    /\ UNCHANGED <<documents, results, faq_raw, llm_calls, insights_returned, insights_task,
                   beyondInsights>>

\* lines 165-170: the retry of the summary with the smaller budget
SummaryRetry(retry) ==
    /\ ipc = "summary"
    /\ results[1].raised
    /\ llm_calls' = Append(llm_calls, LlmCall("summary", "reduced", retry))
    /\ IF retry.raised
       THEN OuterExcept(retry.e) /\ UNCHANGED summary_text
       ELSE /\ summary_text' = IF retry.content = <<>>
                               THEN <<"Summary unavailable">> ELSE retry.content
            /\ ipc' = "faq"
            /\ UNCHANGED insights_returned
    /\ UNCHANGED <<documents, results, faq_raw, insights_task, beyondInsights>>

\* line 198
FaqFromResult ==
    /\ ipc = "faq"
    /\ ~results[2].raised
    /\ faq_raw' = results[2].content
    /\ ipc' = "parse"
    /\ UNCHANGED <<documents, results, summary_text, llm_calls, insights_returned,
                   insights_task, beyondInsights>>

\* lines 191-196: the retry of the FAQ with the smaller budget
FaqRetry(retry) ==
    /\ ipc = "faq"
    /\ results[2].raised
    /\ llm_calls' = Append(llm_calls, LlmCall("faq", "reduced", retry))
    /\ IF retry.raised
       THEN OuterExcept(retry.e) /\ UNCHANGED faq_raw
       ELSE /\ faq_raw' = retry.content
            /\ ipc' = "parse"
            /\ UNCHANGED insights_returned
    /\ UNCHANGED <<documents, results, summary_text, insights_task, beyondInsights>>

\* lines 200-226
ParseAndReturn ==
    /\ ipc = "parse"
    /\ insights_returned' = [summary |-> summary_text, faq |-> FaqItems(faq_raw)]
    /\ ipc' = "returned"
    /\ UNCHANGED <<documents, results, summary_text, faq_raw, llm_calls,
                   insights_task, beyondInsights>>

\* file_process_router.py, lines 64-78: the routine reads insights["summary"]
\* and insights["faq"] and stores the completed record; an exception of the
\* call or of the two reads goes to its except clause
RoutineStoresInsights ==
    /\ ipc \in {"returned", "raised"}
    /\ insights_task' = IF ipc = "returned" /\ {"summary", "faq"} \subseteq DOMAIN insights_returned
                        THEN "completed" ELSE "failed"
    /\ ipc' = "done"
    /\ UNCHANGED <<documents, results, summary_text, faq_raw, llm_calls, insights_returned,
                   beyondInsights>>

InsightsNext ==
    \/ \E docs \in DocumentLists : GenerateInsightsFromDocuments(docs)
    \/ \E r0 \in SummaryResults, r1 \in FaqResults : Gather(r0, r1)
    \/ SummaryFromResult
    \/ \E retry \in SummaryResults : SummaryRetry(retry)
    \/ FaqFromResult
    \/ \E retry \in FaqResults : FaqRetry(retry)
    \/ ParseAndReturn
    \/ RoutineStoresInsights

-----------------------------------------------------------------------------
(* FileProcessingRepo.create_milvus_vectorstore and clean_metadata         *)
(* (repository/file_processing/file_processing_repo.py): what reaches the  *)
(* vector index. A chunk is modelled by its metadata, a function from keys *)
(* to values.                                                              *)

\* the metadata keys of a loaded chunk: what PyPDFLoader and
\* load_and_chunk_pdfs set, and a collection_name left from elsewhere
MetadataKeys == {"source", "gcp_url", "producer", "collection_name"}

MetadataValue(k) ==
    IF k = "source" THEN "a.pdf"
    ELSE IF k = "gcp_url" THEN "temp_pdfs/t1/a.pdf"
    ELSE IF k = "producer" THEN "pdfTeX"
    ELSE "stale"

\* the metadata dictionaries a chunk may carry
Metadatas == {[k \in keys |-> MetadataValue(k)] : keys \in SUBSET MetadataKeys}

\* the collection names of a call
TargetCollections == {"c1", "c2"}

safe_fields == {"source", "page", "filename", "project_id", "gcp_url"}

clean_metadata_keeps_all(metadata) == metadata

\* clean_metadata: empty metadata is returned as it is, otherwise the entries
\* whose key is in safe_fields are kept
clean_metadata(metadata) ==
    IF DOMAIN metadata = {} THEN metadata
    ELSE [k \in DOMAIN metadata \cap safe_fields |-> metadata[k]]

\* doc.metadata['collection_name'] = collection_name
SetCollectionName(metadata, collection_name) ==
    [k \in DOMAIN metadata \cup {"collection_name"} |->
        IF k = "collection_name" THEN collection_name ELSE metadata[k]]

NoIndexingCall ==
    /\ mpc = "idle"
    /\ chunked_docs = <<>>
    /\ target = ""
    /\ cleaned_docs = <<>>

\* create_milvus_vectorstore up to the call of Milvus.from_documents
CreateMilvusVectorstoreCall(docs, collection_name) ==
    /\ mpc = "idle"
    /\ chunked_docs' = docs
    /\ target' = collection_name
    /\ cleaned_docs' =
          [i \in 1..Len(docs) |->
              SetCollectionName(clean_metadata(docs[i]), collection_name)]
    /\ mpc' = "submitted"
    /\ UNCHANGED beyondIndexing

IndexingNext ==
    \E docs \in SeqsUpTo(Metadatas, MaxChunkDocs), c \in TargetCollections :
        CreateMilvusVectorstoreCall(docs, c)

-----------------------------------------------------------------------------
(* RagRepo.get_collection_documents (repository/rags/rags_repo.py): the    *)
(* batched queries of a collection.                                        *)

\* CollectionSummaryRequest.max_docs: ge=1, le=500
MaxDocsValues == 1..500
\* the sizes of the collection
DocCounts == {0, 1, 49, 50, 51, 99, 100, 101, 150, 600}

\* BATCH_SIZE = min(50, max_docs)
BATCH_SIZE(limit) == Min(50, limit)

\* the number of rows collection.query(offset, limit) returns from a
\* collection of count rows
QueryRows(count, offset, limit) ==
    IF count <= offset THEN 0 ELSE Min(limit, count - offset)

NoDocumentsCall ==
    /\ gpc = "idle"
    /\ max_docs = 0
    /\ doc_count = 0
    /\ batch_offset = 0
    /\ all_docs = 0

\* lines 160-171: the call up to the loop
GetCollectionDocuments(limit, count) ==
    /\ gpc = "idle"
    /\ max_docs' = limit
    /\ doc_count' = count
    /\ batch_offset' = 0
    /\ all_docs' = 0
    /\ gpc' = "loop"
    /\ UNCHANGED beyondDocuments

\* lines 173-180: one turn of the loop over range(0, min(doc_count, max_docs),
\* BATCH_SIZE)
QueryBatch ==
    /\ gpc = "loop"
    /\ batch_offset < Min(doc_count, max_docs)
    /\ all_docs' = all_docs + QueryRows(doc_count, batch_offset, BATCH_SIZE(max_docs))
    /\ batch_offset' = batch_offset + BATCH_SIZE(max_docs)
    /\ UNCHANGED <<gpc, max_docs, doc_count, beyondDocuments>>

\* lines 182-185: the range is exhausted; one Document per row is returned
ReturnDocuments ==
    /\ gpc = "loop"
    /\ batch_offset >= Min(doc_count, max_docs)
    /\ gpc' = "returned"
    /\ UNCHANGED <<max_docs, doc_count, batch_offset, all_docs, beyondDocuments>>

DocumentsNext ==
    \/ \E limit \in MaxDocsValues, count \in DocCounts :
          GetCollectionDocuments(limit, count)
    \/ QueryBatch
    \/ ReturnDocuments

-----------------------------------------------------------------------------
(* The two retrievals of asyncStreamQuery and asyncStreamQueryV2: the one  *)
(* of generate_stream, whose documents are reported as sources, and the    *)
(* one inside the chain of RagRepo.aget_chat_chain, whose documents are    *)
(* formatted into the prompt. A chunk is a number; ranking lists the       *)
(* chunks of the collection by their distance to the question.             *)

\* search_kwargs={"k": 10} of _get_retriever
SyncTopK == 10
\* search_kwargs={"k": 5} of _aget_retriever
AsyncTopK == 5

\* the k of the retriever generate_stream uses: _aget_retriever in
\* asyncStreamQuery, _get_retriever in asyncStreamQueryV2
SourcesTopK(ep) == IF ep = "v2" THEN SyncTopK ELSE AsyncTopK
\* the k of the retriever of aget_chat_chain
ChainTopK == AsyncTopK

\* what a retriever with search_kwargs k returns
TopK(rank, k) == SubSeq(rank, 1, Min(k, Len(rank)))

NoRetrievals ==
    /\ qpc = "idle"
    /\ qendpoint = "none"
    /\ ranking = <<>>
    /\ reported = <<>>
    /\ context = <<>>

\* the request arrives; the collection holds n chunks
StartQuery(ep, n) ==
    /\ qpc = "idle"
    /\ qendpoint' = ep
    /\ ranking' = [i \in 1..n |-> i]
    /\ qpc' = "sources"
    /\ UNCHANGED <<reported, context, beyondRetrievals>>

\* rag_router.py lines 141-154, 257-270: the retrieval of generate_stream and
\* the source events
RetrieveSources ==
    /\ qpc = "sources"
    /\ reported' = TopK(ranking, SourcesTopK(qendpoint))
    /\ qpc' = "chain"
    /\ UNCHANGED <<qendpoint, ranking, context, beyondRetrievals>>

\* an ingestion routine writes a chunk to the collection while the generator
\* is suspended at a yield; the chunk is the nearest to the question
IngestChunk ==
    /\ qpc = "chain"
    /\ Len(ranking) < MaxStored
    /\ ranking = [i \in 1..Len(ranking) |-> i]
    /\ ranking' = <<0>> \o ranking
    /\ UNCHANGED <<qpc, qendpoint, reported, context, beyondRetrievals>>

\* rags_repo.py lines 131-139: async_retrieval, the first step of chain.astream
ChainRetrieves ==
    /\ qpc = "chain"
    /\ context' = TopK(ranking, ChainTopK)
    /\ qpc' = "done"
    /\ UNCHANGED <<qendpoint, ranking, reported, beyondRetrievals>>

RetrievalNext ==
    \/ \E ep \in {"v1", "v2"}, n \in 0..MaxStored : StartQuery(ep, n)
    \/ RetrieveSources
    \/ IngestChunk
    \/ ChainRetrieves

-----------------------------------------------------------------------------
(* The specifications: one per part of the program, over the same state.   *)

\* the state after construction: empty registries, no call in progress
Init == SessionEmpty /\ ThreadIdle /\ TasksEmpty /\ NoRequest /\ NoCollections
        /\ NoProtectedRequest /\ NoInsightsCall /\ NoIndexingCall
        /\ NoDocumentsCall /\ NoRetrievals

\* the calls of SessionService, each atomic under the lock
SessionSpec == Init /\ [][SessionNext]_vars
\* one session, with enough appends to pass the history cap
HistorySpec == Init /\ [][HistoryNext]_vars
\* two threads calling SessionService, statement by statement
ThreadSpec == Init /\ [][ThreadNext]_vars
\* the ingestion router on its event loop
TaskSpec == Init /\ [][TaskNext]_vars
\* the ingestion router on an event loop that runs every scheduled routine
TaskLiveSpec == Init /\ [][TaskNext]_vars /\ \A t \in TaskIds : WF_vars(RoutineStep(t))
\* one request to a streaming endpoint
StreamSpec == Init /\ [][StreamNext]_vars
\* one request to a streaming endpoint whose generator is iterated to its end
StreamLiveSpec == Init /\ [][StreamNext]_vars /\ WF_vars(GeneratorStep)
\* the operations on the collections of the vector store
CollectionSpec == Init /\ [][CollectionNext]_vars
\* one request to a protected route
AuthSpec == Init /\ [][AuthNext]_vars
\* one call of generate_insights_from_documents by the ingestion routine
InsightsSpec == Init /\ [][InsightsNext]_vars
\* one call of create_milvus_vectorstore
IndexingSpec == Init /\ [][IndexingNext]_vars
\* one call of get_collection_documents
DocumentsSpec == Init /\ [][DocumentsNext]_vars
\* the two retrievals of one streaming request
RetrievalSpec == Init /\ [][RetrievalNext]_vars

-----------------------------------------------------------------------------
(* Claims about the session registry.                                      *)

\* C1: after any sequence of add_message_to_session calls on a session, the
\* stored chat_history has min(50, appended) entries, they are the most
\* recently appended messages in their append order, and it never holds more
\* than 50 entries.
C1_HistoryIsLastFifty ==
    \A s \in DOMAIN sessions :
        LET h == sessions[s].chat_history
            n == Len(log[s])
        IN  /\ Len(h) = Min(50, n)
            /\ Len(h) <= 50
            /\ \A i \in 1..Len(h) : h[i] = log[s][n - Len(h) + i]

\* a session to which more than 50 messages were appended, right after an append
C1_Witness ==
    /\ lastOp.op = "add_message_to_session"
    /\ lastOp.ret
    /\ Len(log[lastOp.sid]) > 50
    /\ lastOp.sid \in DOMAIN sessions

IsGet == lastOp.op \in {"get_session", "get_chat_history"}

\* C2 as stated: get_session called at t on a stored session returns it and
\* sets last_accessed to t if t - last_accessed <= timeout, and returns
\* absent and removes it if t - last_accessed > timeout.
C2_GetDecidedByCallTime ==
    (IsGet /\ lastOp.pre_present) =>
        IF lastOp.t - lastOp.pre_la <= session_timeout_hours * SecondsPerHour
        THEN /\ lastOp.ret = "session"
             /\ lastOp.sid \in DOMAIN sessions
             /\ sessions[lastOp.sid].last_accessed = lastOp.t
        ELSE /\ lastOp.ret = "absent"
             /\ lastOp.sid \notin DOMAIN sessions

\* C2 as amended: get_session whose clock reading is t returns the stored
\* session and sets last_accessed to t exactly when t - last_accessed <=
\* timeout and, if the call runs a sweep (t - last_sweep > interval), the
\* sweep's own later clock reading t2 also has t2 - last_accessed <= timeout;
\* otherwise it returns absent and the session is no longer in the registry.
C2_GetDecidedByClockReadings ==
    (IsGet /\ lastOp.pre_present) =>
        LET timeout == session_timeout_hours * SecondsPerHour
            swept == lastOp.t - lastOp.pre_cleanup > cleanup_interval
            alive == /\ lastOp.t - lastOp.pre_la <= timeout
                     /\ swept => lastOp.t2 - lastOp.pre_la <= timeout
        IN  IF alive
            THEN /\ lastOp.ret = "session"
                 /\ lastOp.sid \in DOMAIN sessions
                 /\ sessions[lastOp.sid].last_accessed = lastOp.t
            ELSE /\ lastOp.ret = "absent"
                 /\ lastOp.sid \notin DOMAIN sessions

\* a get_session exactly timeout seconds after the last access, which returns
\* the session
C2_Witness ==
    /\ lastOp.op = "get_session"
    /\ lastOp.pre_present
    /\ lastOp.t - lastOp.pre_la = session_timeout_hours * SecondsPerHour
    /\ lastOp.ret = "session"

\* C3: under any interleaving of threads, no caller observes a session in an
\* intermediate state of another thread's call: what get_session hands to
\* get_chat_history never shows a chat_history of more than 50 entries, nor
\* a history that has grown while message_count has not been updated yet.
C3_NoPartialUpdateObserved ==
    \A th \in Threads :
        obs[th].seen =>
            /\ Len(obs[th].history) <= 50
            /\ Len(obs[th].history) = Min(50, obs[th].message_count)

-----------------------------------------------------------------------------
(* Claims about the ingestion tasks.                                       *)

\* the status the registry holds for a task, "none" before it is registered
StatusOf(store, t) == IF t \in DOMAIN store THEN store[t].status ELSE "none"

StatusSteps ==
    {<<"none", "pending">>, <<"pending", "processing">>,
     <<"processing", "completed">>, <<"processing", "failed">>}

\* C4: every step leaves the stored status of every task as it is or moves
\* it one step along pending -> processing -> (completed or failed); nothing
\* returns to pending, nothing leaves completed or failed, and nothing
\* reaches completed or failed except from processing.
C4_StatusMonotonic ==
    [][\A t \in TaskIds :
          LET old == StatusOf(task_status_store, t)
              new == StatusOf(task_status_store', t)
          IN  old = new \/ <<old, new>> \in StatusSteps]_vars

\* one task has completed and the other has failed
C4_Witness ==
    /\ StatusOf(task_status_store, "t1") = "completed"
    /\ StatusOf(task_status_store, "t2") = "failed"

\* a task for which nothing more will run: its handler ended with the
\* exception of the file staging, or its routine has ended
Settled(t) == hpc[t] = "raised" \/ rpc[t] = "done"

\* C5: a registered task in which an exception was raised after the
\* registration (file staging, loading, indexing) and for which nothing is
\* left to run holds status failed with a non-empty error. (Its record does
\* not change any more, so this is what every later poll returns.)
C5_RaisedTaskEndsFailed ==
    \A t \in raised :
        Settled(t) =>
            /\ StatusOf(task_status_store, t) = "failed"
            /\ task_status_store[t].error # ""

IsPoll == tresp.op = "get_task_status"

\* C6: a poll of a registered task before its routine has started returns
\* pending with progress 0; from the moment the routine stored the completed
\* record with result R the registry holds completed, 100, R for the task and
\* every poll of it returns that; a registered task is always in the registry
\* and no poll of it returns NotFound.
C6_PollPendingThenCompletedStable ==
    /\ \A t \in TaskIds : hpc[t] # "none" => t \in DOMAIN task_status_store
    /\ \A t \in DOMAIN stored :
          task_status_store[t] =
              [status |-> "completed", progress |-> 100, result |-> stored[t]]
    /\ IsPoll /\ tresp.hpc # "none" =>
          /\ tresp.resp.http = 200
          /\ (tresp.rpc \in {"none", "scheduled"}) =>
                /\ tresp.resp.status = "pending"
                /\ tresp.resp.progress = 0
          /\ (tresp.rpc = "done" /\ tresp.resp.task_id \in DOMAIN stored) =>
                /\ tresp.resp.status = "completed"
                /\ tresp.resp.progress = 100
                /\ tresp.resp.result = stored[tresp.resp.task_id]

\* a poll after the completion of a task whose result reports a chunk
C6_Witness ==
    /\ IsPoll
    /\ tresp.rpc = "done"
    /\ tresp.resp.task_id \in DOMAIN stored
    /\ stored[tresp.resp.task_id].num_documents > 0
    /\ tresp.resp.status = "completed"

\* a poll between the registration and the start of the routine
C6_WitnessPending ==
    /\ IsPoll
    /\ tresp.rpc = "scheduled"
    /\ tresp.resp.status = "pending"

-----------------------------------------------------------------------------
(* Claims about the streams.                                               *)

IsEvent(f, type) == f.line = "json" /\ f.data.type = type
IsDone(f) == f.line = "[DONE]"
\* the positions of the events of a type in the stream
Idx(type) == {i \in 1..Len(frames) : IsEvent(frames[i], type)}
Finished == spc = "finished"
Last == frames[Len(frames)]

\* C7: every source event comes before every content event; a complete
\* event comes after every source and content event, the only frame that
\* follows it is [DONE], and a stream that has ended with a complete event
\* has [DONE] right after it as its last frame.
C7_SourcesContentCompleteDone ==
    /\ \A i \in Idx("source"), j \in Idx("content") : i < j
    /\ \A k \in Idx("complete") :
          /\ \A i \in Idx("source") \cup Idx("content") : i < k
          /\ k < Len(frames) => Len(frames) = k + 1 /\ IsDone(frames[k + 1])
          /\ Finished => k < Len(frames)

\* an ended asyncStreamQuery stream with a source, a content and a complete event
C7_Witness ==
    /\ Finished
    /\ endpoint = "v1"
    /\ Idx("source") # {}
    /\ Idx("content") # {}
    /\ Idx("complete") # {}
    /\ IsDone(Last)

\* C8: a stream never holds both a complete and an error event, and at most
\* one of each; once retrieval or chain.astream has raised no complete event
\* is emitted and the stream ends with one error event as its last frame; a
\* stream that has ended ends either with complete, [DONE] or with the error
\* event.
C8_ExactlyOneTerminalOutcome ==
    /\ Idx("complete") = {} \/ Idx("error") = {}
    /\ Cardinality(Idx("complete")) <= 1
    /\ Cardinality(Idx("error")) <= 1
    /\ exc.raised => Idx("complete") = {}
    /\ exc.raised /\ Finished => Idx("error") = {Len(frames)}
    /\ Finished =>
          \/ Idx("complete") = {Len(frames) - 1} /\ IsDone(Last)
          \/ Idx("error") = {Len(frames)}

\* a stream in which chain.astream raised after a content event, ended
C8_Witness ==
    /\ Finished
    /\ exc.raised
    /\ Idx("content") # {}
    /\ IsEvent(Last, "error")

StreamTypes == {"source", "content", "complete", "error"}

\* C9 as stated: every frame of an ended stream but the last is an event of
\* type source, content, complete or error, and the last one is [DONE].
C9_FourTypesThenDone ==
    Finished =>
        /\ \A i \in 1..(Len(frames) - 1) :
              frames[i].line = "json" /\ frames[i].data.type \in StreamTypes
        /\ IsDone(Last)

\* C9, amended: the events of an ended stream are of type source, content,
\* complete or error, but for the persona_info event that is the first frame
\* of every personaStreamQuery stream; [DONE] occurs as the last frame only,
\* and exactly in the streams that hold a complete event; every other stream
\* has its error event as the last frame.
C9_TypesAndTermination ==
    Finished =>
        /\ \A i \in 1..Len(frames) :
              \/ IsDone(frames[i]) /\ i = Len(frames)
              \/ frames[i].line = "json" /\ frames[i].data.type \in StreamTypes
              \/ IsEvent(frames[i], "persona_info") /\ i = 1 /\ endpoint = "persona"
        /\ endpoint = "persona" => IsEvent(frames[1], "persona_info")
        /\ IsDone(Last) <=> Idx("complete") # {}
        /\ ~IsDone(Last) => IsEvent(Last, "error")

\* an ended personaStreamQuery stream whose last frame is the error event
C9_Witness ==
    /\ Finished
    /\ endpoint = "persona"
    /\ IsEvent(frames[1], "persona_info")
    /\ IsEvent(Last, "error")
    /\ Len(frames) > 2

RECURSIVE ContentOf(_)
\* the contents of the content events of a sequence of frames, concatenated
ContentOf(fs) ==
    IF fs = <<>> THEN <<>>
    ELSE (IF IsEvent(Head(fs), "content") THEN Head(fs).data.content ELSE <<>>)
         \o ContentOf(Tail(fs))

RECURSIVE SourcesOf(_)
\* the source events of a sequence of frames
SourcesOf(fs) ==
    IF fs = <<>> THEN <<>>
    ELSE (IF IsEvent(Head(fs), "source") THEN <<Head(fs).data>> ELSE <<>>)
         \o SourcesOf(Tail(fs))

\* C10 as stated: the complete event carries the concatenation of the
\* content events and the list of the source events.
C10_CompleteCarriesAll ==
    \A k \in Idx("complete") :
        /\ frames[k].data.content = ContentOf(frames)
        /\ frames[k].data.sources = SourcesOf(frames)

\* c is s without the blanks and newlines at its two ends
IsStripOf(c, s) ==
    \E a \in 1..(Len(s) + 1), b \in 0..Len(s) :
        /\ c = SubSeq(s, a, b)
        /\ \A i \in 1..Len(s) : (i < a \/ i > b) => s[i] \in Whitespace
        /\ c # <<>> => c[1] \notin Whitespace /\ c[Len(c)] \notin Whitespace

HasMarker(text) == \E m \in 1..Len(sources_markers) : Contains(text, sources_markers[m])

\* C10, amended: in asyncStreamQuery and asyncStreamQueryV2 the complete
\* event carries the concatenation of the content events and the list of the
\* source events. In personaStreamQuery there is no source event; the
\* complete event carries the concatenation itself when it holds no sources
\* marker, with an empty sources list, and otherwise the stripped text before
\* the first occurrence of the first marker of the list SOURCES:,
\* REFERENCES:, Sources:, References: that the concatenation holds, with a
\* sources list whose entries refer to citations that follow that marker and
\* name a retrieved document or Unknown.
C10_CompleteContentAndSources ==
    \A k \in Idx("complete") :
        LET c == frames[k].data
            text == ContentOf(frames)
        IN  IF endpoint # "persona"
            THEN c.content = text /\ c.sources = SourcesOf(frames)
            ELSE /\ SourcesOf(frames) = <<>>
                 /\ ~HasMarker(text) => c.content = text /\ c.sources = <<>>
                 /\ HasMarker(text) =>
                       \E m \in 1..Len(sources_markers), p \in 1..Len(text) :
                          /\ text[p] = sources_markers[m]
                          /\ \A q \in 1..(p - 1) : text[q] # sources_markers[m]
                          /\ \A n \in 1..(m - 1) : ~Contains(text, sources_markers[n])
                          /\ IsStripOf(c.content, SubSeq(text, 1, p - 1))
                          /\ \A i \in 1..Len(c.sources) :
                                /\ \E q \in (p + 1)..Len(text) :
                                      c.sources[i].reference = <<text[q]>>
                                /\ \/ c.sources[i].source = "Unknown"
                                   \/ \E d \in 1..Len(retrieved_docs) :
                                         /\ retrieved_docs[d].source = c.sources[i].source
                                         /\ retrieved_docs[d].page = c.sources[i].page

\* an ended personaStreamQuery stream whose text held a marker after blank
\* text: the complete event carries less than the concatenation, and a source
C10_Witness ==
    /\ Finished
    /\ endpoint = "persona"
    /\ \E k \in Idx("complete") :
          /\ frames[k].data.content # ContentOf(frames)
          /\ frames[k].data.content # <<>>
          /\ frames[k].data.sources # <<>>

\* an ended asyncStreamQueryV2 stream with sources and content
C10_WitnessChat ==
    /\ Finished
    /\ endpoint = "v2"
    /\ \E k \in Idx("complete") :
          /\ Len(frames[k].data.content) > 2
          /\ Len(frames[k].data.sources) = 2

-----------------------------------------------------------------------------
(* Claims about the validation of the requests.                            *)

\* C11: a request that a streaming handler rejects for a missing question,
\* a missing audio payload or an unknown persona is answered with a 4xx
\* status.
C11_RejectedWith4xx == spc = "rejected" => http \in 400..499

\* C12: a request with neither a textual question nor an audio payload is
\* rejected by each of the three endpoints, and no collaborator
\* (transcription, collection load, retrieval, language model) is called for
\* it and no stream is started.
C12_UnresolvableQuestionRejectedFirst ==
    (endpoint # "none" /\ request.question = "" /\ ~request.has_audio) =>
        /\ spc = "rejected"
        /\ called = {}
        /\ frames = <<>>

\* asyncStreamQueryV2 called with is_audio set, no payload and no question
C12_Witness ==
    /\ endpoint = "v2"
    /\ request.question = ""
    /\ request.is_audio
    /\ ~request.has_audio
    /\ spc = "rejected"

\* the instruction text the prompt is to hold for a persona in lower case
ExpectedInstruction(p) ==
    CASE p = "ux" -> "Analyze this from a User Experience perspective."
      [] p = "sales" -> "Analyze this from a Sales and Business perspective."
      [] p = "technical" -> "Analyze this from a Technical perspective."
      [] p = "management" -> "Analyze this from a Strategic Management perspective."
      [] p = "default" -> "Provide expert analysis based on the provided context."

\* the persona of the request, whatever its case, is the persona p
IsPersona(p) ==
    request.persona \in
        CASE p = "technical" -> {"technical", "Technical", "TECHNICAL"}
          [] p = "management" -> {"management", "Management", "MANAGEMENT"}
          [] OTHER -> {p}

KnownPersonas == {"ux", "sales", "technical", "management", "default"}

\* C13: in personaStreamQuery, when the language model is called for a
\* request whose persona is one of ux, sales, technical, management, default
\* in any case, the system prompt holds the instruction text of that
\* persona; a request with any other persona is rejected and neither the
\* retriever nor the language model is called.
C13_PersonaPromptOrRejection ==
    endpoint = "persona" =>
        /\ \A p \in KnownPersonas :
              IsPersona(p) /\ "llm" \in called =>
                  Contains(system_prompt, ExpectedInstruction(p))
        /\ (\A p \in KnownPersonas : ~IsPersona(p)) =>
              /\ spc = "rejected"
              /\ called = {}

\* the language model was called for a request with persona "Technical"
C13_Witness ==
    /\ endpoint = "persona"
    /\ request.persona = "Technical"
    /\ "llm" \in called
    /\ Contains(system_prompt, "Analyze this from a Technical perspective.")

\* a personaStreamQuery request with an unknown persona and a question
C13_WitnessRejected ==
    /\ endpoint = "persona"
    /\ request.persona = "bogus"
    /\ request.question = "q"
    /\ spc = "rejected"

-----------------------------------------------------------------------------
(* Claims about the collections.                                           *)

IsDelete == cresp.op = "delete_collection"

\* C14 as stated: a deleteCollection request without confirm leaves the
\* collections as they were and is answered with success false; the
\* collection is dropped only with confirm and only if it existed, and
\* success true is reported only then.
C14_UnconfirmedAnswersSuccessFalse ==
    IsDelete =>
        /\ ~cresp.confirm =>
              /\ collections = cresp.before
              /\ cresp.response = DeleteResponse(200, FALSE)
        /\ collections # cresp.before =>
              /\ cresp.confirm
              /\ cresp.collection_name \in cresp.before
        /\ cresp.response.success =>
              /\ cresp.confirm
              /\ cresp.collection_name \in cresp.before
              /\ collections = cresp.before \ {cresp.collection_name}

\* C14, amended: a deleteCollection request without confirm leaves the
\* collections as they were and is answered with success false, or with
\* status 500 when the connection to the vector store cannot be opened or
\* closed; the collections change only by the loss of the named collection,
\* only with confirm and only if it existed, and success true is reported
\* only then.
C14_UnconfirmedNeverDrops ==
    IsDelete =>
        /\ ~cresp.confirm =>
              /\ collections = cresp.before
              /\ cresp.response \in
                    {DeleteResponse(200, FALSE), DeleteResponse(500, FALSE)}
        /\ collections # cresp.before =>
              /\ cresp.confirm
              /\ cresp.collection_name \in cresp.before
              /\ collections = cresp.before \ {cresp.collection_name}
        /\ cresp.response.success =>
              /\ cresp.response.http = 200
              /\ cresp.confirm
              /\ cresp.collection_name \in cresp.before
              /\ collections = cresp.before \ {cresp.collection_name}

\* an unconfirmed request for an existing collection, answered success false
C14_Witness ==
    /\ IsDelete
    /\ ~cresp.confirm
    /\ cresp.collection_name \in collections
    /\ cresp.response = DeleteResponse(200, FALSE)

\* a confirmed request that dropped one of two collections
C14_WitnessDropped ==
    /\ IsDelete
    /\ cresp.response.success
    /\ cresp.before = {"c1", "c2"}
    /\ collections = {"c2"}

-----------------------------------------------------------------------------
(* Further claims about the ingestion tasks and the persona stream.        *)

\* C15: the record of a failed task still holds a progress value, and a
\* poll of a failed task reports one.
C15_FailedKeepsProgress ==
    /\ \A t \in DOMAIN task_status_store :
          task_status_store[t].status = "failed" =>
              "progress" \in DOMAIN task_status_store[t]
    /\ (IsPoll /\ tresp.resp.http = 200 /\ tresp.resp.status = "failed") =>
          "progress" \in DOMAIN tresp.resp

\* C16: once nothing more runs for an accepted ingestion request (its
\* routine has ended, or its handler ended with the exception of the file
\* staging), its temporary directory is not on disk.
C16_TempDirRemoved == \A t \in TaskIds : Settled(t) => t \notin temp_dirs

RECURSIVE CitationLines(_)
\* the lines of a sources section that are citations
CitationLines(lines) ==
    IF lines = <<>> THEN <<>>
    ELSE (IF Len(Head(lines)) = 1 /\ Head(lines)[1] \in CitationTokens
          THEN <<Head(lines)>> ELSE <<>>) \o CitationLines(Tail(lines))

\* C17: the complete event of personaStreamQuery holds one sources entry
\* for every citation line of the sources section, in order.
C17_EveryCitationLineYieldsEntry ==
    endpoint = "persona" =>
        \A k \in Idx("complete") :
            LET cited == CitationLines(SourceLines(SourcesSection(ContentOf(frames))))
                entries == frames[k].data.sources
            IN  /\ Len(entries) = Len(cited)
                /\ \A i \in 1..Len(entries) : entries[i].reference = cited[i]

-----------------------------------------------------------------------------
(* Claims about the authentication gate.                                   *)

\* the token decodes with the configured secret, carries the five claims
\* and has not expired at the time of the request
GoodToken ==
    /\ bearer.wellformed
    /\ bearer.key = "JWT_SECRET"
    /\ UserClaims \subseteq bearer.claims
    /\ bearer.exp >= auth_time

\* C18: the gate returns an identity, and the body of the protected
\* operation runs, only for a well-formed token signed with the configured
\* secret that carries id, email, name, iat and exp and whose exp is not
\* earlier than the time of the request; every other token is answered with
\* status 401 and the body does not run.
C18_IdentityOnlyForGoodToken ==
    /\ apc \in {"authenticated", "body_done"} => GoodToken /\ aresp.status = 200
    /\ apc = "rejected" => aresp.status = 401
    /\ (apc # "idle" /\ ~GoodToken) => apc = "rejected"

\* a token signed with the secret that lacks the name claim was rejected
C18_Witness ==
    /\ apc = "rejected"
    /\ bearer.wellformed
    /\ bearer.key = "JWT_SECRET"
    /\ bearer.claims = UserClaims \ {"name"}
    /\ aresp.status = 401

\* the body ran for a token with all claims that expires later
C18_WitnessAccepted ==
    /\ apc = "body_done"
    /\ bearer.exp > auth_time

-----------------------------------------------------------------------------
(* Claims about the locking of the registries.                             *)

\* the statements of SessionService that read or write the registry or a
\* session stored in it
RegistryAccess ==
    {"cs_put", "am_get", "am_count", "am_la", "am_trim", "gs_sweep", "gs_get",
     "gch_read"}

\* C19: a thread that is about to read or write the session registry or a
\* session of it holds the registry's lock.
C19_AccessUnderLock == \A th \in Threads : tpc[th] \in RegistryAccess => lock = th

-----------------------------------------------------------------------------
(* Further claims about the session registry.                              *)

\* C20: a call of add_message_to_session with an empty id or an id that is
\* not in the registry returns false and leaves the registry as it was; a
\* call with an id of the registry returns true, puts the message at the end
\* of that session's history (after the entries it had, while they were
\* fewer than 50), adds 1 to its message_count, sets its last_accessed to
\* the current time, and leaves its collection and every other session as
\* they were.
C20_AddMessageEffect ==
    [][lastOp'.op = "add_message_to_session" =>
          LET sid == lastOp'.sid
          IN  IF sid = "" \/ sid \notin DOMAIN sessions
              THEN /\ lastOp'.ret = FALSE
                   /\ sessions' = sessions
                   /\ last_cleanup' = last_cleanup
              ELSE LET old == sessions[sid]
                       new == sessions'[sid]
                       message == log'[sid][Len(log'[sid])]
                   IN  /\ lastOp'.ret = TRUE
                       /\ DOMAIN sessions' = DOMAIN sessions
                       /\ Len(log'[sid]) = Len(log[sid]) + 1
                       /\ new.chat_history[Len(new.chat_history)] = message
                       /\ Len(old.chat_history) < HistoryCap =>
                             new.chat_history = Append(old.chat_history, message)
                       /\ new.message_count = old.message_count + 1
                       /\ new.last_accessed = now
                       /\ new.collection_name = old.collection_name
                       /\ \A other \in DOMAIN sessions \ {sid} :
                             sessions'[other] = sessions[other]]_vars

\* a message was appended to one of two stored sessions after the clock moved
C20_Witness ==
    /\ lastOp.op = "add_message_to_session"
    /\ lastOp.ret
    /\ Cardinality(DOMAIN sessions) = 2
    /\ sessions[lastOp.sid].last_accessed > 0
    /\ sessions[lastOp.sid].message_count = 1

\* a call with an id that is not in the registry returned false
C20_WitnessAbsent ==
    /\ lastOp.op = "add_message_to_session"
    /\ ~lastOp.ret
    /\ lastOp.sid # ""
    /\ sessions # <<>>

-----------------------------------------------------------------------------
(* Further claims about the streams.                                       *)

\* the retrieval of an asyncStreamQuery or asyncStreamQueryV2 stream has
\* returned no chunk
ZeroChunks ==
    /\ endpoint \in {"v1", "v2"}
    /\ spc \in {"astream", "complete_sent", "except", "finished"}
    /\ retrieved_docs = <<>>

\* C21: a stream of asyncStreamQuery or asyncStreamQueryV2 whose retrieval
\* returned no chunk holds no source event; when nothing raised and it has
\* ended, its last two frames are a complete event with an empty sources
\* list and [DONE]; and every such stream ends.
C21_ZeroChunksTerminates ==
    /\ [](ZeroChunks =>
            /\ Idx("source") = {}
            /\ Finished /\ ~exc.raised =>
                  /\ Len(frames) >= 2
                  /\ IsEvent(frames[Len(frames) - 1], "complete")
                  /\ frames[Len(frames) - 1].data.sources = <<>>
                  /\ IsDone(Last))
    /\ (ZeroChunks ~> Finished)

\* an ended asyncStreamQueryV2 stream without chunks, with a content event
C21_Witness ==
    /\ ZeroChunks
    /\ endpoint = "v2"
    /\ Finished
    /\ ~exc.raised
    /\ Idx("content") # {}
    /\ IsDone(Last)

-----------------------------------------------------------------------------
(* Claims about the expiry of sessions.                                    *)

Gets == {"get_session", "get_chat_history"}
Timeout == session_timeout_hours * SecondsPerHour

\* C22 as stated: a get_session called at t with t - last_sweep > interval
\* leaves no session with t - last_accessed > timeout and last_sweep = t; with
\* t - last_sweep <= interval it leaves last_sweep as it was and removes at
\* most the looked-up session; no other operation changes last_sweep.
C22_SweepAtCallTime ==
    [][IF lastOp'.op \in Gets
       THEN IF now - last_cleanup > cleanup_interval
            THEN /\ \A s \in DOMAIN sessions' :
                       now - sessions'[s].last_accessed <= Timeout
                 /\ last_cleanup' = now
            ELSE /\ last_cleanup' = last_cleanup
                 /\ DOMAIN sessions \ DOMAIN sessions' \subseteq {lastOp'.sid}
       ELSE last_cleanup' = last_cleanup]_vars

\* C22, amended: a get_session with a non-empty id whose clock reading t has
\* t - last_sweep > interval runs a sweep with the sweep's own clock reading
\* t2 >= t: when the call returns, no stored session has
\* t2 - last_accessed > timeout (hence none has t - last_accessed > timeout)
\* and last_sweep = t2; with t - last_sweep <= interval last_sweep is as it
\* was and at most the looked-up session is removed. A get_session with an
\* empty id changes nothing, whatever the time. No other operation changes
\* last_sweep, and none but delete_session removes a session.
C22_SweepAtSweepTime ==
    [][IF lastOp'.op \in Gets
       THEN IF lastOp'.sid = ""
            THEN sessions' = sessions /\ last_cleanup' = last_cleanup
            ELSE IF now - last_cleanup > cleanup_interval
            THEN /\ lastOp'.t = now
                 /\ lastOp'.t2 >= now
                 /\ \A s \in DOMAIN sessions' :
                       /\ lastOp'.t2 - sessions'[s].last_accessed <= Timeout
                       /\ now - sessions'[s].last_accessed <= Timeout
                 /\ \A s \in DOMAIN sessions \ {lastOp'.sid} :
                       lastOp'.t2 - sessions[s].last_accessed <= Timeout =>
                           s \in DOMAIN sessions'
                 /\ last_cleanup' = lastOp'.t2
            ELSE /\ last_cleanup' = last_cleanup
                 /\ DOMAIN sessions \ DOMAIN sessions' \subseteq {lastOp'.sid}
       ELSE /\ last_cleanup' = last_cleanup
            /\ DOMAIN sessions \ DOMAIN sessions' \subseteq
                  (IF lastOp'.op = "delete_session" THEN {lastOp'.sid} ELSE {})]_vars

\* a get_session ran a sweep whose clock reading was later than its own, and
\* the sweep removed both sessions
C22_Witness ==
    /\ lastOp.op = "get_session"
    /\ lastOp.sid # ""
    /\ lastOp.t - lastOp.pre_cleanup > cleanup_interval
    /\ lastOp.t2 > lastOp.t
    /\ last_cleanup = lastOp.t2
    /\ used = SessionIds
    /\ sessions = <<>>

\* a get_session with an empty id, called when a sweep was due, ran none
C22_WitnessEmptyId ==
    /\ lastOp.op = "get_session"
    /\ lastOp.sid = ""
    /\ lastOp.t - last_cleanup > cleanup_interval
    /\ \E s \in DOMAIN sessions : lastOp.t - sessions[s].last_accessed > Timeout

-----------------------------------------------------------------------------
(* Further claims about the ingestion tasks.                               *)

\* a stage of the routine of task t has raised
RoutineRaised(t) == t \in raised /\ hpc[t] = "returned"

\* C23: the chunks are written to the collection only by a routine that is
\* at the indexing call, after its load has returned; insights are stored
\* only by a routine that has passed the indexing; a routine in which a stage
\* has raised is in its except or finally clause or has ended, has written
\* nothing since and holds no insights, and its task is failed once the
\* except clause has run; and no step takes chunks out of a collection.
C23_StagesInOrderNoRollback ==
    /\ [](\A t \in TaskIds :
             RoutineRaised(t) =>
                /\ rpc[t] \in {"l78", "l80", "done"}
                /\ job[t].summary = "" /\ job[t].faq = <<>>
                /\ rpc[t] \in {"l80", "done"} =>
                      StatusOf(task_status_store, t) = "failed")
    /\ [][/\ \A c \in ProjectNames : milvus'[c] >= milvus[c]
          /\ milvus' # milvus =>
                \E t \in TaskIds :
                    /\ running = Routine(t) /\ rpc[t] = "l56" /\ t \notin raised
                    /\ \A c \in ProjectNames :
                          milvus'[c] - milvus[c] <=
                             (IF c = job[t].project_name
                              THEN job[t].num_documents ELSE 0)
          /\ \A t \in TaskIds :
                /\ job'[t].num_documents # job[t].num_documents => rpc[t] = "l50"
                /\ (job'[t].summary # job[t].summary \/ job'[t].faq # job[t].faq) =>
                      rpc[t] \in {"l64", "l64_await"} /\ t \notin raised]_vars

\* the indexing of the only task raised after it had written a chunk; the
\* routine has ended, the task is failed and the chunk is in the collection
C23_Witness ==
    /\ RoutineRaised("t1")
    /\ hpc["t2"] = "none"
    /\ rpc["t1"] = "done"
    /\ job["t1"].num_documents > 0
    /\ milvus[job["t1"].project_name] > 0
    /\ StatusOf(task_status_store, "t1") = "failed"

-----------------------------------------------------------------------------
(* Claims about the generation of insights.                                *)

\* the positions of the model calls for a prompt with a budget
CallsOf(prompt, budget) ==
    {i \in 1..Len(llm_calls) :
        llm_calls[i].prompt = prompt /\ llm_calls[i].budget = budget}

\* a call with the reduced budget has raised
RetryFailed ==
    \E i \in 1..Len(llm_calls) :
        llm_calls[i].budget = "reduced" /\ llm_calls[i].result.raised

C24_WitnessPlain ==
    /\ ipc = "returned"
    /\ Len(llm_calls) = 2
    /\ insights_returned.summary = <<"a summary">>
    /\ Len(insights_returned.faq) = 1

-----------------------------------------------------------------------------
(* Claims about what reaches the vector index.                             *)

-----------------------------------------------------------------------------
(* Claims about get_collection_documents.                                  *)

\* C26: get_collection_documents never holds, and never returns, more than
\* max_docs documents.
C26_AtMostMaxDocs == gpc \in {"loop", "returned"} => all_docs <= max_docs

-----------------------------------------------------------------------------
(* Further claims about the expiry of sessions.                            *)

\* the session is stored and its timeout has elapsed at time t
ExpiredAt(reg, sid, t) == sid \in DOMAIN reg /\ t - reg[sid].last_accessed > Timeout

\* C27: no step makes a stored session whose timeout has elapsed unexpired
\* again: after the step the session is removed or its timeout has still
\* elapsed, so that no later get_session returns it.
C27_ExpiredStaysUnreachable ==
    [][\A sid \in SessionIds :
          ExpiredAt(sessions, sid, now) =>
              sid \notin DOMAIN sessions' \/ ExpiredAt(sessions', sid, now')]_vars

-----------------------------------------------------------------------------
(* Claims about the reported sources.                                      *)

\* C28: once the chain has retrieved, the chunks reported as sources are
\* exactly the chunks formatted into the prompt, so that no source is
\* reported that the language model did not receive.
C28_SourcesAreContext == qpc = "done" => reported = context

-----------------------------------------------------------------------------
(* Claims about the preloaded collections.                                 *)

\* C29: every name in RagRepo's set of preloaded collections is the name of
\* a collection that exists and is loaded in the vector store, and
\* _ensure_collection_loaded skips the load only for such a collection.
C29_PreloadedExistAndAreLoaded ==
    /\ preloaded_collections \subseteq collections \cap loaded
    /\ (cresp.op = "_ensure_collection_loaded" /\ ~cresp.raised) =>
          cresp.collection_name \in collections \cap loaded

-----------------------------------------------------------------------------
(* Claims about the polls of a running ingestion.                          *)

\* the registry holds processing with progress p for task t
ProcessingAt(t, p) ==
    /\ StatusOf(task_status_store, t) = "processing"
    /\ task_status_store[t].progress = p

\* C30: the routine gives control back to the loop at every stage boundary:
\* whenever the registry holds processing with progress 10, 50, 75 or 85 for
\* a task (85: of a task with documents), the loop becomes idle while that
\* value is stored, so that a poll can return it.
C30_PollableAtEveryBoundary ==
    \A t \in TaskIds, p \in {10, 50, 75, 85} :
        (ProcessingAt(t, p) /\ (p = 85 => job[t].num_documents > 0))
            ~> (ProcessingAt(t, p) /\ running = Idle)

\* what the polls of a running task return: processing with progress 85,
\* never with 10, 50 or 75
PollsSeeOnlyLastBoundary ==
    (IsPoll /\ tresp.resp.http = 200 /\ tresp.resp.status = "processing") =>
        tresp.resp.progress = 85

============================================================================
